---- MODULE Spec2Model ----
(***************************************************************************)
(* Authentication / authorization engine of Secure-API-Test:               *)
(*   middleware/auth.js      principal resolution (x-api-key, bearer JWT)  *)
(*   middleware/roles.js     requireRole permission gate                   *)
(*   controllers/*.js        register, login, changePassword, changeRole,  *)
(*                           createApiKeys, listApiKeys, deleteApiKeys     *)
(* The store (roles, users, api_keys) is the only shared state.  A request *)
(* is a little process; every action holds at most one store operation and *)
(* the synchronous code around it, so requests interleave exactly at the   *)
(* awaits of the handlers.                                                 *)
(***************************************************************************)
EXTENDS Integers, Sequences, FiniteSets, TLC

\* ------------------------------------------------------------------ bounds
MaxRequests == 2
MaxBatch == 2
MaxKeys == 2
MaxUsers == 3
MaxGate == 3
AuthRequests == 1
MaxRoundTrip == 3
MigrateRequests == 2
LimiterRequests == 3
OwnerRequests == 2
MaxNow == 12500

Slots == {1, 2}

\* ------------------------------------------------------- sequence helpers
Range(s) == {s[i] : i \in 1..Len(s)}

Includes(s, x) == \E i \in 1..Len(s) : s[i] = x

RECURSIVE Filter(_, _)
Filter(s, keep) ==
    IF s = <<>> THEN <<>>
    ELSE IF Head(s) \in keep THEN <<Head(s)>> \o Filter(Tail(s), keep)
    ELSE Filter(Tail(s), keep)

RECURSIVE Reject(_, _)
Reject(s, drop) ==
    IF s = <<>> THEN <<>>
    ELSE IF Head(s) \in drop THEN Reject(Tail(s), drop)
    ELSE <<Head(s)>> \o Reject(Tail(s), drop)

\* -------------------------------------------------------- roles (dbinit)
\* can_* columns of the roles table, in column order (Object.keys order).
PermColumns ==
    <<"can_get_my_user", "can_get_users", "can_post_login", "can_post_products",
      "can_get_products", "can_get_my_products", "can_get_bestsellers",
      "can_upload_media", "can_create_api_keys", "can_read_api_keys",
      "can_delete_api_keys">>

\* k.slice(4) on a can_* column name.
Slice4 ==
    [c \in Range(PermColumns) |->
        CASE c = "can_get_my_user" -> "get_my_user"
          [] c = "can_get_users" -> "get_users"
          [] c = "can_post_login" -> "post_login"
          [] c = "can_post_products" -> "post_products"
          [] c = "can_get_products" -> "get_products"
          [] c = "can_get_my_products" -> "get_my_products"
          [] c = "can_get_bestsellers" -> "get_bestsellers"
          [] c = "can_upload_media" -> "upload_media"
          [] c = "can_create_api_keys" -> "create_api_keys"
          [] c = "can_read_api_keys" -> "read_api_keys"
          [] c = "can_delete_api_keys" -> "delete_api_keys"]

PermNames == {Slice4[c] : c \in Range(PermColumns)}

\* `can_${reqPerm}`: the column a plain permission name addresses; a name with
\* no column reads as undefined.
CanColumn(p) ==
    IF p \in PermNames THEN CHOOSE c \in Range(PermColumns) : Slice4[c] = p
    ELSE "undefined"

\* Column values are written "i:<n>" for an integer and "s:<text>" for text
\* (SQLite keeps text that is no number in an INTEGER column as text).
FlagValues == {"i:0", "i:1", "i:2", "s:TRUE", "s:true", "s:0"}

\* String(v).toUpperCase()
UpperString(v) ==
    CASE v = "i:0" -> "0"
      [] v = "i:1" -> "1"
      [] v = "i:2" -> "2"
      [] v = "s:TRUE" -> "TRUE"
      [] v = "s:true" -> "TRUE"
      [] v = "s:0" -> "0"
      [] OTHER -> "UNDEFINED"

\* v === 1 || v === "1" || v === true || String(v).toUpperCase() === "TRUE"
Truthy(v) == v = "i:1" \/ v = "s:1" \/ v = "b:true" \/ UpperString(v) = "TRUE"

\* JavaScript truthiness of a column value (login: !user.can_post_login).
JsTruthy(v) == v \notin {"i:0", "undefined", "s:"}

\* String.prototype.toLowerCase on the role names that occur.
ToLower(s) ==
    CASE s = "ADMIN" -> "admin"
      [] s = "Admin" -> "admin"
      [] s = "BAN" -> "ban"
      [] s = "Ban" -> "ban"
      [] OTHER -> s

RoleIds == 1..4

\* Column defaults of CREATE TABLE roles.
DefaultFlags ==
    [c \in Range(PermColumns) |->
        IF c \in {"can_get_users", "can_get_products", "can_get_bestsellers",
                  "can_upload_media"}
        THEN "i:0" ELSE "i:1"]

SetFlags(flags, cols, v) ==
    [c \in DOMAIN flags |-> IF c \in cols THEN v ELSE flags[c]]

\* The seed of migrations/dbinit.sql.
SeedRoles ==
    [i \in RoleIds |->
        CASE i = 1 -> [id |-> 1, name |-> "admin",
                       flags |-> SetFlags(DefaultFlags,
                           {"can_get_users", "can_get_products",
                            "can_get_bestsellers", "can_upload_media"}, "i:1")]
          [] i = 2 -> [id |-> 2, name |-> "user", flags |-> DefaultFlags]
          [] i = 3 -> [id |-> 3, name |-> "premium",
                       flags |-> SetFlags(DefaultFlags,
                           {"can_get_bestsellers", "can_upload_media"}, "i:1")]
          [] i = 4 -> [id |-> 4, name |-> "ban",
                       flags |-> SetFlags(DefaultFlags,
                           {"can_get_my_user", "can_post_login", "can_post_products",
                            "can_get_my_products", "can_create_api_keys",
                            "can_read_api_keys", "can_delete_api_keys"}, "i:0")]]

\* The seed after an administrative edit of the flag columns: the admin role
\* loses two flags, the ban role holds truthy flags in two encodings.
EditedRoles ==
    [i \in RoleIds |->
        CASE i = 1 -> [SeedRoles[1] EXCEPT
                         !.flags = SetFlags(@, {"can_get_users", "can_upload_media"}, "i:0")]
          [] i = 4 -> [SeedRoles[4] EXCEPT
                         !.flags = SetFlags(SetFlags(@, {"can_post_products"}, "i:1"),
                                            {"can_get_users"}, "s:true")]
          [] OTHER -> SeedRoles[i]]

RoleTables == {SeedRoles, EditedRoles}

\* ------------------------------------------------------------ JSON, hashes
\* A JavaScript value that JSON can carry: an array of strings or something else.
JsArray(s) == [t |-> "array", v |-> s]

JsObject == [t |-> "object", v |-> <<>>]

\* Array.isArray(x) ? x : []
ArrayOrEmpty(x) == IF x.t = "array" THEN x.v ELSE <<>>

\* The permissions column: NULL, or a text that is JSON or is not.
SqlNull == [sql |-> "null", wellformed |-> FALSE, val |-> JsArray(<<>>)]

GarbageText == [sql |-> "text", wellformed |-> FALSE, val |-> JsArray(<<>>)]

JsonStringify(val) == [sql |-> "text", wellformed |-> TRUE, val |-> val]

\* A mutation of JsonParse: a text that is not JSON reads as an empty list.
JsonParseLenient(text) == [threw |-> FALSE, val |-> text.val]

\* JSON.parse: throws on a text that is not JSON.
JsonParse(text) ==
    IF text.wellformed THEN [threw |-> FALSE, val |-> text.val]
    ELSE [threw |-> TRUE, val |-> JsArray(<<>>)]

\* A header value is a sequence of characters: 0 is a blank, any other number
\* stands for the 64 hex digits of one raw secret.
RECURSIVE TrimStart(_)
TrimStart(s) == IF s # <<>> /\ Head(s) = 0 THEN TrimStart(Tail(s)) ELSE s

RECURSIVE TrimEnd(_)
TrimEnd(s) ==
    IF s # <<>> /\ s[Len(s)] = 0 THEN TrimEnd(SubSeq(s, 1, Len(s) - 1)) ELSE s

\* String(apiKeyHeader).trim()
Trim(s) == TrimEnd(TrimStart(s))

\* crypto.createHash("sha256").update(x).digest("hex"): injective on the model's texts.
Sha256(x) == [alg |-> "sha256", of |-> x]

\* bcrypt.hash / bcrypt.compare
BcryptHash(pw) == [alg |-> "bcrypt", of |-> pw]

BcryptCompare(pw, hash) == hash = BcryptHash(pw)

\* crypto.randomBytes(32).toString("hex") for the n-th key: never repeats.
RawSecret(n) == <<300 + n>>

\* generatePublicIds: a fresh public id for the n-th row of a table.
generatePublicIds(entity, n) == IF entity = "user" THEN 100 + n ELSE 200 + n

\* ------------------------------------------------------------ responses
NoToken == [sig |-> "none", shape |-> FALSE, public_id |-> 0, username |-> "",
            role_id |-> 0, token_version |-> 0]

Response(status, error) ==
    [status |-> status, error |-> error, invalid_permissions |-> <<>>,
     created |-> <<>>, rows |-> <<>>, token |-> NoToken]

\* No response sent yet; the middleware called next().
Pending == Response(0, "")

\* ------------------------------------------------------------ principals
\* req.user; id 0 stands for undefined.
NoUser ==
    [id |-> 0, is_api_key |-> FALSE, public_id |-> 0, username |-> "", role_id |-> 0,
     token_version |-> 0, api_key_id |-> 0, permissions |-> JsArray(<<>>)]

\* req.headers["x-api-key"] absent or empty: both are falsy.
NoHeader == <<>>

\* ------------------------------------------------- limitLoginAttempts
\* req.ip of the clients.
Addresses == {"10.0.0.1", "10.0.0.2"}

\* now - attempts[ip] < 5000
Window == 5000

\* Date.now() when the server comes up, in ms (any positive number).
StartTime == 1

\* The clock moves on between two requests by one of these amounts.
TickSteps == {2500, 4999}

\* ---------------------------------------------------------------- state
VARIABLES
    roles,      \* roles table: id -> [id, name, flags]
    users,      \* users table: sequence of rows, the internal id is the index
    api_keys,   \* api_keys table: set of rows
    nextKeyId,  \* AUTOINCREMENT of api_keys
    tokens,     \* bearer tokens signed by login so far
    knownRaws,  \* raw secrets that a creation response has shown to a client
    req,        \* the requests in flight: slot -> request
    routes,     \* the routes that clients call
    left,       \* number of requests still to arrive
    attempts,   \* limitLoginAttempts: address -> time of the last admitted attempt
    now,        \* Date.now()
    admitted    \* history: the attempts that limitLoginAttempts has let through

vars ==
    <<roles, users, api_keys, nextKeyId, tokens, knownRaws, req, routes, left,
      attempts, now, admitted>>

limiter == <<attempts, now, admitted>>

store == <<roles, users, api_keys, nextKeyId>>

UserIds == 1..Len(users)

\* SELECT ... FROM users WHERE public_id = ? / WHERE username = ?
UsersByPublicId(pid) == {i \in UserIds : users[i].public_id = pid}

UsersByUsername(name) == {i \in UserIds : users[i].username = name}

\* A mutation of RolesByName: only the default role is found.
RolesByNameDefaultOnly(name) == {i \in RoleIds : name = "user" /\ roles[i].name = name}

\* SELECT id FROM roles WHERE name = ?
RolesByName(name) == {i \in RoleIds : roles[i].name = name}

\* A mutation of KeysByHash: the SELECT joins the owner and leaves out the
\* keys of banned users.
KeysByHashOfUnbanned(h) ==
    {k \in api_keys : /\ k.key_hash = h
                      /\ \A u \in UserIds :
                            u = k.owner_user_id => roles[users[u].role_id].name # "ban"}

\* SELECT ... FROM api_keys WHERE key_hash = ? LIMIT 1 (key_hash is UNIQUE)
KeysByHash(h) == {k \in api_keys : k.key_hash = h}

\* SELECT r.* FROM roles r JOIN users u ON u.role_id = r.id WHERE u.id = ?
\* -- the set of rows, empty or one row, with the columns of the roles table.
RoleRowsOfUser(uid) ==
    IF uid \in UserIds /\ users[uid].role_id \in RoleIds
    THEN {roles[users[uid].role_id]} ELSE {}

\* SELECT r.*, r.name AS role_name ...: the same rows with the extra column.
RoleRowsWithRoleName(uid) ==
    {[id |-> row.id, name |-> row.name, flags |-> row.flags, role_name |-> row.name] :
        row \in RoleRowsOfUser(uid)}

\* row.role_name || "": the column exists only where the SELECT names it.
RoleNameOrEmpty(row) == IF "role_name" \in DOMAIN row THEN row.role_name ELSE ""

\* rolePermissions[col]
Column(row, col) == IF col \in DOMAIN row.flags THEN row.flags[col] ELSE "undefined"

\* -------------------------------------------------- middleware/auth.js
\* A mutation of PrincipalId: the key stands for itself.
PrincipalIdOfKey(row) == row.id

\* id: row.owner_user_id -- a key acts as the user who owns it.
PrincipalId(row) == row.owner_user_id

\* The API-key path of auth: what it answers and what it leaves in req.user.
AuthApiKey(header) ==
    LET provided == Trim(header)
        keyHash == Sha256(provided)
        rows == KeysByHash(keyHash)
    IN  IF rows = {} THEN [res |-> Response(403, "Invalid API key"), user |-> NoUser]
        ELSE LET row == CHOOSE k \in rows : TRUE
                 parsed == JsonParse(row.permissions)
             IN  IF row.disabled # 0
                 THEN [res |-> Response(403, "Invalid API key"), user |-> NoUser]
                 ELSE IF row.permissions.sql = "text" /\ parsed.threw
                 THEN [res |-> Response(403, "Invalid API key"), user |-> NoUser]
                 ELSE [res |-> Pending,
                       user |-> [id |-> PrincipalId(row),
                                 is_api_key |-> TRUE,
                                 public_id |-> row.public_id,
                                 username |-> "api_key:",
                                 role_id |-> 0,
                                 token_version |-> 0,
                                 api_key_id |-> row.id,
                                 permissions |->
                                     IF row.permissions.sql = "text"
                                     THEN parsed.val ELSE JsArray(<<>>)]]

\* A version is an integer, or it is missing: undefined in a token payload
\* (the field is optional), NULL in a row.
Undefined == -1

Null == -2

\* v ?? null
OrNull(v) == IF v = Undefined THEN Null ELSE v

\* A mutation of TokenVersionMismatch: a missing version counts as 0.
TokenVersionMismatchOrZero(stored, snapshot) ==
    (IF OrNull(stored) = Null THEN 0 ELSE stored)
        # (IF OrNull(snapshot) = Null THEN 0 ELSE snapshot)

\* (stored ?? null) !== (snapshot ?? null)
TokenVersionMismatch(stored, snapshot) == OrNull(stored) # OrNull(snapshot)

\* The bearer path of auth after the payload has been accepted: the lookup of
\* the user and the comparison of the versions.
AuthBearerUser(token) ==
    LET rows == UsersByPublicId(token.public_id)
    IN  IF rows = {} THEN [res |-> Response(404, "User not found"), user |-> NoUser]
        ELSE LET id == CHOOSE i \in rows : TRUE
             IN  IF TokenVersionMismatch(users[id].token_version, token.token_version)
                 THEN [res |-> Response(403, "Token invalidated"), user |-> NoUser]
                 ELSE [res |-> Pending,
                       user |-> [id |-> id,
                                 is_api_key |-> FALSE,
                                 public_id |-> token.public_id,
                                 username |-> users[id].username,
                                 role_id |-> users[id].role_id,
                                 token_version |-> users[id].token_version,
                                 api_key_id |-> 0,
                                 permissions |-> JsArray(<<>>)]]

\* A mutation of AuthBearer: the payload is decoded and validated before the
\* signature is verified.
AuthBearerShapeFirst(token) ==
    IF token.sig = "none" THEN [res |-> Response(401, "Missing token"), user |-> NoUser]
    ELSE IF ~token.shape
    THEN [res |-> Response(403, "Invalid token payload"), user |-> NoUser]
    ELSE IF token.sig # "valid"
    THEN [res |-> Response(403, "Invalid or expired token"), user |-> NoUser]
    ELSE AuthBearerUser(token)

\* The bearer path of auth.
AuthBearer(token) ==
    IF token.sig = "none" THEN [res |-> Response(401, "Missing token"), user |-> NoUser]
    ELSE IF token.sig # "valid"
    THEN [res |-> Response(403, "Invalid or expired token"), user |-> NoUser]
    ELSE IF ~token.shape
    THEN [res |-> Response(403, "Invalid token payload"), user |-> NoUser]
    ELSE AuthBearerUser(token)

\* A mutation of auth: the bearer token is looked at first.
authTokenFirst(apiKeyHeader, token) ==
    IF token # NoToken THEN AuthBearer(token)
    ELSE IF apiKeyHeader # NoHeader THEN AuthApiKey(apiKeyHeader)
    ELSE AuthBearer(token)

\* auth: an x-api-key header, when present, decides alone.
auth(apiKeyHeader, token) ==
    IF apiKeyHeader # NoHeader THEN AuthApiKey(apiKeyHeader) ELSE AuthBearer(token)

\* ------------------------------------------------- middleware/roles.js
\* reqPerm.startsWith("role:") and reqPerm.slice(5), on the entries that occur.
RoleGateEntries == {"role:admin", "role:ADMIN", "role:ban", "role:user"}

StartsWithRole(e) == e \in RoleGateEntries

Slice5(e) ==
    CASE e = "role:admin" -> "admin"
      [] e = "role:ADMIN" -> "ADMIN"
      [] e = "role:ban" -> "ban"
      [] e = "role:user" -> "user"
      [] OTHER -> ""

\* A mutation of KeyGateLoop: role entries are not skipped.
KeyGateLoopNoSkip(allowedRoles, perms) ==
    \E i \in 1..Len(allowedRoles) :
        Includes(perms, allowedRoles[i]) \/ Includes(perms, "all")

\* The loop of the API-key branch: TRUE when some entry calls next().
RECURSIVE KeyGateLoop(_, _)
KeyGateLoop(allowedRoles, perms) ==
    IF allowedRoles = <<>> THEN FALSE
    ELSE LET reqPerm == Head(allowedRoles)
         IN  IF StartsWithRole(reqPerm) THEN KeyGateLoop(Tail(allowedRoles), perms)
             ELSE IF Includes(perms, reqPerm) \/ Includes(perms, "all") THEN TRUE
             ELSE KeyGateLoop(Tail(allowedRoles), perms)

\* A mutation of UserGateLoop: the first entry decides.
UserGateLoopFirst(allowedRoles, rolePermissions) ==
    /\ allowedRoles # <<>>
    /\ LET reqPerm == Head(allowedRoles)
       IN  IF StartsWithRole(reqPerm)
           THEN ToLower(RoleNameOrEmpty(rolePermissions)) = ToLower(Slice5(reqPerm))
           ELSE Truthy(Column(rolePermissions, CanColumn(reqPerm)))

\* The loop of the user branch over the role row read from the store.
RECURSIVE UserGateLoop(_, _)
UserGateLoop(allowedRoles, rolePermissions) ==
    IF allowedRoles = <<>> THEN FALSE
    ELSE LET reqPerm == Head(allowedRoles)
         IN  IF StartsWithRole(reqPerm)
             THEN IF ToLower(RoleNameOrEmpty(rolePermissions)) = ToLower(Slice5(reqPerm))
                  THEN TRUE
                  ELSE UserGateLoop(Tail(allowedRoles), rolePermissions)
             ELSE IF Truthy(Column(rolePermissions, CanColumn(reqPerm))) THEN TRUE
             ELSE UserGateLoop(Tail(allowedRoles), rolePermissions)

\* A mutation of RoleRowsWithRoleName: the row is found by the role id that
\* auth left on the principal, not by a join on the users row.
RoleRowsOfPrincipal(user) ==
    {[id |-> roles[i].id, name |-> roles[i].name, flags |-> roles[i].flags,
      role_name |-> roles[i].name] : i \in {j \in RoleIds : j = user.role_id}}

\* A mutation of RoleRowsOfRequester: the join also asks for the token_version
\* that auth saw.
RoleRowsOfCurrentVersion(user) ==
    {row \in RoleRowsWithRoleName(user.id) :
        users[user.id].token_version = user.token_version}

\* The SELECT of requireRole for the principal at hand.
RoleRowsOfRequester(user) == RoleRowsWithRoleName(user.id)

\* A mutation of IsBanned: the ban role is a role like any other.
IsBannedNever(rolePermissions) == FALSE

\* rolePermissions.role_name && rolePermissions.role_name.toLowerCase() === "ban"
IsBanned(rolePermissions) ==
    rolePermissions.role_name # "" /\ ToLower(rolePermissions.role_name) = "ban"

\* requireRole(allowedRoles)(req, res, next): Pending stands for next().
requireRole(allowedRoles, user) ==
    IF user.id = 0 THEN Response(401, "Unauthorized")
    ELSE IF user.is_api_key
    THEN IF KeyGateLoop(allowedRoles, ArrayOrEmpty(user.permissions)) THEN Pending
         ELSE Response(403, "Forbidden: insufficient permissions (api key)")
    ELSE LET rows == RoleRowsOfRequester(user)
         IN  IF rows = {} THEN Response(403, "Forbidden")
             ELSE LET rolePermissions == CHOOSE row \in rows : TRUE
                  IN  IF IsBanned(rolePermissions) THEN Response(403, "Forbidden")
                      ELSE IF UserGateLoop(allowedRoles, rolePermissions) THEN Pending
                      ELSE Response(403, "Forbidden: insufficient permissions")

\* ------------------------------------------------------------- requests
\* The store holds two keys from earlier: one since disabled by an operator,
\* one in use.  The ids of new keys follow them.
DisabledKey ==
    [id |-> 1, public_id |-> generatePublicIds("api_key", 1),
     key_hash |-> Sha256(RawSecret(1)), name |-> "old", owner_user_id |-> 1,
     permissions |-> JsonStringify(JsArray(<<"get_users">>)), disabled |-> 1]

ActiveKey ==
    [id |-> 2, public_id |-> generatePublicIds("api_key", 2),
     key_hash |-> Sha256(RawSecret(2)), name |-> "bot", owner_user_id |-> 2,
     permissions |-> JsonStringify(JsArray(<<"post_products", "create_api_keys">>)),
     disabled |-> 0]

InitialKeys == {DisabledKey, ActiveKey}

FirstKeyId == Cardinality(InitialKeys) + 1

\* The body of POST /products, as far as requireUploadIfImages reads it: an
\* array of items or one item; an item is null or an object whose images field
\* is an array or something else (absent included).
NoImages == JsObject

NullItem == [isNull |-> TRUE, images |-> NoImages]

Item(images) == [isNull |-> FALSE, images |-> images]

NoBody == [isArray |-> FALSE, items |-> <<>>]

ObjectBody(item) == [isArray |-> FALSE, items |-> <<item>>]

ArrayBody(items) == [isArray |-> TRUE, items |-> items]

ProductBodies ==
    {NoBody,
     ObjectBody(Item(NoImages)),
     ObjectBody(Item(JsArray(<<>>))),
     ObjectBody(Item(JsArray(<<"a.png">>))),
     ArrayBody(<<>>),
     ArrayBody(<<Item(NoImages), Item(JsArray(<<>>))>>),
     ArrayBody(<<NullItem, Item(NoImages), Item(JsArray(<<"a.png">>))>>)}

\* item && Array.isArray(item.images) && item.images.length > 0
HasImages(item) ==
    ~item.isNull /\ item.images.t = "array" /\ Len(item.images.v) > 0

\* A mutation of AnyHasImages: of an array only the first item is looked at.
FirstHasImages(body) == body.items # <<>> /\ HasImages(Head(body.items))

\* The test of requireUploadIfImages: req.body.some(...) for an array, the
\* same test on req.body itself otherwise.
AnyHasImages(body) == \E i \in 1..Len(body.items) : HasImages(body.items[i])

\* Locals of the handlers (one record for all routes; unused ones keep their
\* initial value).
NoRow ==
    [id |-> 0, public_id |-> 0, username |-> "", password |-> BcryptHash(""),
     role_id |-> 0, token_version |-> 0]

EmptyRoleRow == [id |-> 0, name |-> "", flags |-> [c \in {} |-> "i:0"]]

Locals ==
    [user |-> NoRow,                  \* login: the row read by the SELECT
     roleId |-> 0,                    \* changeRole
     targetUserId |-> 0,              \* changeRole
     creatorPerms |-> <<>>,           \* createApiKeys
     creatorIsAdmin |-> FALSE,
     roleRow |-> EmptyRoleRow,
     batch |-> 0,                     \* items.length
     index |-> 0,                     \* items already taken by the for loop
     requested |-> <<>>,              \* of the item at hand
     finalRequested |-> <<>>,
     raw |-> <<>>,
     keyHash |-> Sha256(<<>>),
     created |-> <<>>,
     publicIds |-> {},                \* deleteApiKeys: parsed.data.public_ids
     username |-> "",                 \* register: req.body
     role |-> "",
     body |-> NoBody,                 \* POST /products: req.body
     password |-> "",                 \* change-password: req.body.password
     ip |-> ""]                       \* POST /login: req.ip

IdleRequest ==
    [route |-> "", allowedRoles |-> <<>>, pc |-> "idle", apiKeyHeader |-> NoHeader,
     token |-> NoToken, user |-> NoUser, res |-> Pending, loc |-> Locals]

\* routes/*.js: the routes, whether auth guards them, and their gate lists.
Routes ==
    {"POST /register", "POST /login", "POST /change-password", "POST /change-role",
     "POST /api-keys", "GET /api-keys", "DELETE /api-keys", "GET /users",
     "POST /products"}

OpenRoutes == {"POST /register", "POST /login"}

GateOf(route) ==
    CASE route = "POST /change-role" -> <<"role:admin">>
      [] route = "POST /api-keys" -> <<"create_api_keys">>
      [] route = "GET /api-keys" -> <<"read_api_keys">>
      [] route = "DELETE /api-keys" -> <<"delete_api_keys">>
      [] route = "GET /users" -> <<"get_users">>
      [] route = "POST /products" -> <<"post_products">>
      [] OTHER -> <<>>

\* A mutation of GatedRoutes: requireRole stands before change-password too.
GatedRoutesAll == Routes \ OpenRoutes

GatedRoutes == Routes \ (OpenRoutes \cup {"POST /change-password"})

\* Inputs of the requests.
Passwords == {"pw1", "pw2"}

UsernameInputs == {"alice", "bob"}

\* role of a body: "" stands for a role that is absent or empty (role || "user").
RoleInputs == {"", "admin", "ban", "nosuch"}

UnknownRaw == <<399>>

\* What a client can put in x-api-key: nothing, blanks, a secret it was shown
\* (bare or padded with blanks), or a secret no key has.
HeaderChoices ==
    {NoHeader, <<0>>, UnknownRaw} \cup knownRaws
        \cup {<<0>> \o raw \o <<0>> : raw \in knownRaws}

ForgedToken ==
    [sig |-> "bad", shape |-> TRUE, public_id |-> 101, username |-> "admin",
     role_id |-> 1, token_version |-> 0]

\* What a client can put in Authorization: nothing, a token login gave out, or
\* a token whose signature does not verify.
TokenChoices == {NoToken, ForgedToken} \cup tokens

\* A mutation of Done: the response is sent without return, next() follows.
DoneAndNext(r, res) == [req[r] EXCEPT !.pc = "handler", !.res = res]

\* return res.status(...).json(...): the request ends with this response.
Done(r, res) == [req[r] EXCEPT !.pc = "done", !.res = res]

Idle(r) == req[r].pc = "idle"

\* Sending a response is the last act of a request and touches nothing else,
\* so a finished request leaves before anything else moves.
Answered == \E q \in Slots : req[q].pc = "done"

At(r, route, pc) == ~Answered /\ req[r].route = route /\ req[r].pc = pc

\* Keys that the batches in flight may still insert.
RECURSIVE SumOver(_, _)
SumOver(f, S) ==
    IF S = {} THEN 0
    ELSE LET x == CHOOSE y \in S : TRUE IN f[x] + SumOver(f, S \ {x})

KeysReserved ==
    SumOver([r \in Slots |-> IF req[r].pc = "done" THEN 0
                             ELSE req[r].loc.batch - req[r].loc.index], Slots)

\* Keys inserted by createApiKeys so far.
KeysCreated == nextKeyId - FirstKeyId

UsersReserved ==
    Cardinality({r \in Slots : req[r].route = "POST /register" /\ req[r].pc # "done"})

\* The pairs (x-api-key, Authorization) that requests carry.
CredentialChoices == HeaderChoices \X TokenChoices

FreeSlot(r) == ~Answered /\ Idle(r)

\* Two requests are in flight at most.  A request that only reads the store
\* changes nothing that the other one sees, so the second slot takes only
\* requests that get to write: those of the routes below once auth has passed.
WritingRoutes ==
    {"POST /register", "POST /login", "POST /change-password", "POST /change-role",
     "POST /api-keys", "DELETE /api-keys"}

Admits(r, route, status) == r = 1 \/ (route \in WritingRoutes /\ status = 0)

\* const attempts = {}: no address has an entry (0 stands for undefined; both
\* are falsy in `attempts[ip] && ...`).
LimiterAtStart ==
    /\ attempts = [a \in Addresses |-> 0]
    /\ now = StartTime
    /\ admitted = {}

\* attempts[ip] && now - attempts[ip] < 5000
Limited(ip) == attempts[ip] # 0 /\ now - attempts[ip] < Window

\* A mutation of AttemptsAfter: a rejected attempt moves the timestamp too.
AttemptsAfterEvery(ip, limited) == [attempts EXCEPT ![ip] = now]

\* attempts[ip] = now, reached only when the attempt is let through.
AttemptsAfter(ip, limited) ==
    IF limited THEN attempts ELSE [attempts EXCEPT ![ip] = now]

\* limitLoginAttempts: 429 or next().
limitLoginAttempts(ip) ==
    IF Limited(ip) THEN Response(429, "Too many attempts. Wait") ELSE Pending

\* Time passes.
Tick ==
    /\ \E d \in TickSteps : now + d <= MaxNow /\ now' = now + d
    /\ UNCHANGED <<store, tokens, knownRaws, req, routes, left, attempts, admitted>>

\* A request for a route without auth arrives (routes/auth.js); a login
\* passes limitLoginAttempts first.
Arrive(r) ==
    /\ FreeSlot(r)
    /\ left > 0
    /\ left' = left - 1
    /\ \E route \in routes \cap OpenRoutes, ip \in Addresses :
          LET lim == IF route = "POST /login" THEN limitLoginAttempts(ip) ELSE Pending
              arrived == [IdleRequest EXCEPT
                            !.route = route,
                            !.loc.ip = IF route = "POST /login" THEN ip ELSE ""]
          IN  /\ Admits(r, route, lim.status)
              /\ route = "POST /register" => Len(users) + UsersReserved < MaxUsers
              /\ req' = [req EXCEPT ![r] =
                           IF lim.status # 0
                           THEN [arrived EXCEPT !.pc = "done", !.res = lim]
                           ELSE [arrived EXCEPT !.pc = "handler"]]
              /\ attempts' = IF route = "POST /login"
                             THEN AttemptsAfter(ip, lim.status # 0) ELSE attempts
              /\ admitted' = IF route = "POST /login" /\ lim.status = 0
                             THEN admitted \cup {<<ip, now>>} ELSE admitted
    /\ UNCHANGED <<store, tokens, knownRaws, routes, now>>

\* A request for a guarded route arrives and middleware/auth.js resolves its
\* credentials: the headers are read on arrival, the store once.
Auth(r) ==
    /\ FreeSlot(r)
    /\ left > 0
    /\ left' = left - 1
    /\ \E route \in routes \ OpenRoutes, c \in CredentialChoices,
          n \in 0..MaxBatch :
          /\ n > 0 <=> route = "POST /api-keys"
          /\ KeysCreated + KeysReserved + n <= MaxKeys
          /\ Admits(r, route, auth(c[1], c[2]).res.status)
          /\ LET a == auth(c[1], c[2])
                 arrived == [IdleRequest EXCEPT
                               !.route = route, !.allowedRoles = GateOf(route),
                               !.apiKeyHeader = c[1], !.token = c[2]]
             IN  req' = [req EXCEPT ![r] =
                     IF a.res.status # 0
                     THEN [arrived EXCEPT !.pc = "done", !.res = a.res]
                     ELSE [arrived EXCEPT
                             !.user = a.user,
                             !.loc.batch = n,
                             !.pc = IF route \in GatedRoutes THEN "gate" ELSE "handler"]]
    /\ UNCHANGED <<store, tokens, knownRaws, routes, limiter>>

\* middleware/roles.js, as mounted on the route
Gate(r) ==
    /\ ~Answered /\ req[r].pc = "gate"
    /\ LET g == requireRole(req[r].allowedRoles, req[r].user)
       IN  req' = [req EXCEPT ![r] =
                     IF g.status # 0 THEN Done(r, g)
                     ELSE [req[r] EXCEPT
                             !.pc = IF req[r].route = "POST /products"
                                    THEN "gate2" ELSE "handler"]]
    /\ UNCHANGED <<store, tokens, knownRaws, routes, limiter, left>>

\* routes/products.js requireUploadIfImages on the body of the request.
requireUploadIfImages(r) ==
    /\ At(r, "POST /products", "gate2")
    /\ \E body \in ProductBodies :
          LET anyHasImages == AnyHasImages(body)
              g == IF anyHasImages THEN requireRole(<<"upload_media">>, req[r].user)
                   ELSE Pending
          IN  req' = [req EXCEPT ![r] =
                        IF g.status # 0 THEN [Done(r, g) EXCEPT !.loc.body = body]
                        ELSE [req[r] EXCEPT !.pc = "handler", !.loc.body = body]]
    /\ UNCHANGED <<store, tokens, knownRaws, routes, limiter, left>>

\* The response has been sent; the slot is free again.
Finish(r) ==
    /\ req[r].pc = "done"
    /\ req' = [req EXCEPT ![r] = IdleRequest]
    /\ UNCHANGED <<store, tokens, knownRaws, routes, limiter, left>>

\* ------------------------------------------- controllers/authController.js
\* register: the role is looked up by name (roles are never written by a
\* request), then the row is inserted with token_version DEFAULT 0.
register(r) ==
    /\ At(r, "POST /register", "handler")
    /\ \E username \in UsernameInputs, role \in RoleInputs, password \in {"pw1"} :
          LET roleRows == RolesByName(IF role = "" THEN "user" ELSE role)
              roleId == CHOOSE i \in roleRows : TRUE
              publicId == generatePublicIds("user", Len(users) + 1)
              body == [req[r] EXCEPT !.loc.username = username, !.loc.role = role]
          IN  IF roleRows = {}
              THEN /\ req' = [req EXCEPT ![r] =
                                [body EXCEPT !.pc = "done",
                                             !.res = Response(400, "Invalid role")]]
                   /\ UNCHANGED users
              ELSE IF UsersByUsername(username) # {}
              THEN /\ req' = [req EXCEPT ![r] =
                                [body EXCEPT
                                   !.pc = "done",
                                   !.res = Response(400, "Username already exists or DB error")]]
                   /\ UNCHANGED users
              ELSE /\ users' = Append(users,
                                  [public_id |-> publicId, username |-> username,
                                   password |-> BcryptHash(password), role_id |-> roleId,
                                   token_version |-> 0])
                   /\ req' = [req EXCEPT ![r] =
                                [body EXCEPT !.pc = "done", !.res = Response(200, "")]]
    /\ UNCHANGED <<roles, api_keys, nextKeyId, tokens, knownRaws, routes, limiter, left>>

\* login, up to the await of bcrypt.compare: the SELECT and the two early returns.
loginSelect(r) ==
    /\ At(r, "POST /login", "handler")
    /\ \E username \in {users[i].username : i \in UserIds} \cup {"ghost"} :
          LET rows == UsersByUsername(username)
              id == CHOOSE i \in rows : TRUE
              can_post_login == Column(roles[users[id].role_id], "can_post_login")
          IN  req' = [req EXCEPT ![r] =
                IF rows = {} THEN Done(r, Response(404, "User not found"))
                ELSE IF ~JsTruthy(can_post_login)
                THEN Done(r, Response(403, "Login permission denied"))
                ELSE [req[r] EXCEPT
                        !.pc = "login:compare",
                        !.loc.user = [id |-> id,
                                      public_id |-> users[id].public_id,
                                      username |-> users[id].username,
                                      password |-> users[id].password,
                                      role_id |-> users[id].role_id,
                                      token_version |-> users[id].token_version]]]
    /\ UNCHANGED <<store, tokens, knownRaws, routes, limiter, left>>

\* jwt.sign over the row that the SELECT returned.
SignToken(user) ==
    [sig |-> "valid", shape |-> TRUE, public_id |-> user.public_id,
     username |-> user.username, role_id |-> user.role_id,
     token_version |-> user.token_version]

\* login, after bcrypt.compare.
loginSign(r) ==
    /\ At(r, "POST /login", "login:compare")
    /\ \E password \in Passwords :
          IF ~BcryptCompare(password, req[r].loc.user.password)
          THEN /\ req' = [req EXCEPT ![r] = Done(r, Response(401, "Invalid password"))]
               /\ UNCHANGED tokens
          ELSE LET token == SignToken(req[r].loc.user)
               IN  /\ tokens' = tokens \cup {token}
                   /\ req' = [req EXCEPT ![r] =
                                Done(r, [Response(200, "") EXCEPT !.token = token])]
    /\ UNCHANGED <<store, knownRaws, routes, limiter, left>>

\* ------------------------------------------ changePassword / changeRole
\* The UPDATE of changePassword without its token_version term.
UpdatePasswordOnly(id, hash) ==
    IF id \in UserIds THEN [users EXCEPT ![id].password = hash] ELSE users

\* UPDATE users SET password = ?, token_version = token_version + 1 WHERE id = ?
UpdatePassword(id, hash) ==
    IF id \in UserIds
    THEN [users EXCEPT ![id].password = hash, ![id].token_version = @ + 1]
    ELSE users

\* POST /change-password: the schema check of the route, then changePassword.
changePassword(r) ==
    /\ At(r, "POST /change-password", "handler")
    /\ \E password \in Passwords \cup {"short"} :
          IF password = "short"
          THEN /\ req' = [req EXCEPT ![r] = Done(r, Response(400, "validation"))]
               /\ UNCHANGED users
          ELSE /\ users' = UpdatePassword(req[r].user.id, BcryptHash(password))
               /\ req' = [req EXCEPT ![r] =
                            [Done(r, Response(200, "")) EXCEPT !.loc.password = password]]
    /\ UNCHANGED <<roles, api_keys, nextKeyId, tokens, knownRaws, routes, limiter, left>>

UnknownPublicId == 199

\* changeRole, the two SELECTs: role id by name, user id by public id.
changeRoleLookup(r) ==
    /\ At(r, "POST /change-role", "handler")
    /\ \E userPublicId \in {users[i].public_id : i \in UserIds} \cup {UnknownPublicId},
          newRole \in {"admin", "user", "ban", "nosuch"} :
          LET roleRows == RolesByName(newRole)
              userRows == UsersByPublicId(userPublicId)
          IN  req' = [req EXCEPT ![r] =
                IF roleRows = {} THEN Done(r, Response(400, "Invalid role"))
                ELSE IF userRows = {} THEN Done(r, Response(404, "User not found"))
                ELSE [req[r] EXCEPT
                        !.pc = "changeRole:update",
                        !.loc.roleId = CHOOSE i \in roleRows : TRUE,
                        !.loc.targetUserId = CHOOSE i \in userRows : TRUE]]
    /\ UNCHANGED <<store, tokens, knownRaws, routes, limiter, left>>

\* A mutation of UpdateRole: the UPDATE has lost its WHERE clause.
UpdateRoleEveryRow(id, roleId) ==
    [i \in UserIds |-> [users[i] EXCEPT !.role_id = roleId, !.token_version = @ + 1]]

\* UPDATE users SET role_id = ?, token_version = token_version + 1 WHERE id = ?
UpdateRole(id, roleId) ==
    IF id \in UserIds
    THEN [users EXCEPT ![id].role_id = roleId, ![id].token_version = @ + 1]
    ELSE users

\* changeRole, the UPDATE and the answer.
changeRoleUpdate(r) ==
    /\ At(r, "POST /change-role", "changeRole:update")
    /\ users' = UpdateRole(req[r].loc.targetUserId, req[r].loc.roleId)
    /\ req' = [req EXCEPT ![r] = Done(r, Response(200, ""))]
    /\ UNCHANGED <<roles, api_keys, nextKeyId, tokens, knownRaws, routes, limiter, left>>

\* ---------------------------------------- controllers/apiKeysController.js
\* Object.keys(roleRow).filter(k => k.startsWith("can_")), in column order.
CanKeys(roleRow) == Filter(PermColumns, DOMAIN roleRow.flags)

\* ... .map(k => k.slice(4))
RECURSIVE MapSlice4(_)
MapSlice4(cols) ==
    IF cols = <<>> THEN <<>> ELSE <<Slice4[Head(cols)]>> \o MapSlice4(Tail(cols))

\* The creator's permission names: the can_* columns with a truthy value.
CreatorPermsOfRow(roleRow) ==
    MapSlice4(Filter(CanKeys(roleRow),
                     {c \in DOMAIN roleRow.flags : Truthy(roleRow.flags[c])}))

\* creatorIsAdmin = (roleRow.role_name || "").toLowerCase() === "admin"
CreatorIsAdmin(roleRow) == ToLower(RoleNameOrEmpty(roleRow)) = "admin"

\* createApiKeys up to the loop: an API key brings its own list, a user's role
\* row is read from the store.
createApiKeysReadRole(r) ==
    /\ At(r, "POST /api-keys", "handler")
    /\ req' = [req EXCEPT ![r] =
         IF req[r].user.is_api_key
         THEN [req[r] EXCEPT
                 !.pc = "createApiKeys:item",
                 !.loc.creatorPerms = ArrayOrEmpty(req[r].user.permissions),
                 !.loc.creatorIsAdmin = FALSE]
         ELSE LET rows == RoleRowsOfUser(req[r].user.id)
                  roleRow == IF rows = {} THEN EmptyRoleRow ELSE CHOOSE row \in rows : TRUE
              IN  [req[r] EXCEPT
                     !.pc = "createApiKeys:item",
                     !.loc.roleRow = roleRow,
                     !.loc.creatorPerms = CreatorPermsOfRow(roleRow),
                     !.loc.creatorIsAdmin = CreatorIsAdmin(roleRow)]]
    /\ UNCHANGED <<store, tokens, knownRaws, routes, limiter, left>>

\* The items a body can hold: permissions absent, or one of these lists.
NoPermissions == [present |-> FALSE, list |-> <<>>]

RequestedLists ==
    {<<>>, <<"all">>, <<"post_products", "get_products">>,
     <<"post_products", "get_users">>, <<"get_users", "post_products", "get_users">>,
     <<"create_api_keys", "post_products">>}

ItemInputs == {NoPermissions} \cup {[present |-> TRUE, list |-> l] : l \in RequestedLists}

\* A mutation of RequestedProcessed: "all" asked by a key means every permission.
RequestedProcessedUniverse(requested, isApiKey, creatorIsAdmin, creatorPerms, roleRow) ==
    IF Includes(requested, "all")
    THEN IF isApiKey THEN MapSlice4(PermColumns)
         ELSE IF creatorIsAdmin THEN MapSlice4(CanKeys(roleRow))
         ELSE creatorPerms
    ELSE requested

\* The expansion of a request for "all".
RequestedProcessed(requested, isApiKey, creatorIsAdmin, creatorPerms, roleRow) ==
    IF Includes(requested, "all")
    THEN IF isApiKey THEN creatorPerms
         ELSE IF creatorIsAdmin THEN MapSlice4(CanKeys(roleRow))
         ELSE creatorPerms
    ELSE requested

\* The subset check left out.
InvalidNever(finalRequested, creatorIsAdmin, creatorPerms) == <<>>

\* finalRequested.filter(p => !creatorPerms.includes(p)), empty for an admin
Invalid(finalRequested, creatorIsAdmin, creatorPerms) ==
    IF creatorIsAdmin THEN <<>> ELSE Reject(finalRequested, Range(creatorPerms))

\* Array.isArray(item.permissions)
\*   ? (requestedProcessed.length > 0 ? requestedProcessed : item.permissions) : []
PermsToStore(item, requestedProcessed) ==
    IF item.present
    THEN IF Len(requestedProcessed) > 0 THEN requestedProcessed ELSE item.list
    ELSE <<>>

\* One turn of the for loop up to the INSERT: the checks of the item, then the
\* new row.
createApiKeysItem(r) ==
    /\ At(r, "POST /api-keys", "createApiKeys:item")
    /\ \E item \in ItemInputs :
          LET loc == req[r].loc
              requested == IF item.present THEN item.list ELSE <<>>
              requestedProcessed ==
                  RequestedProcessed(requested, req[r].user.is_api_key,
                                     loc.creatorIsAdmin, loc.creatorPerms, loc.roleRow)
              invalid == Invalid(requestedProcessed, loc.creatorIsAdmin, loc.creatorPerms)
              raw == RawSecret(nextKeyId)
              keyHash == Sha256(raw)
              publicId == generatePublicIds("api_key", nextKeyId)
              permsJson == JsonStringify(JsArray(PermsToStore(item, requestedProcessed)))
          IN  IF Len(invalid) > 0
              THEN /\ req' = [req EXCEPT ![r] =
                        [Done(r, [Response(403,
                                     "Forbidden: cannot grant permissions you don't have")
                                  EXCEPT !.invalid_permissions = invalid])
                         EXCEPT !.loc.requested = requested,
                                !.loc.finalRequested = requestedProcessed]]
                   /\ UNCHANGED <<api_keys, nextKeyId>>
              ELSE /\ api_keys' = api_keys \cup
                        {[id |-> nextKeyId, public_id |-> publicId, key_hash |-> keyHash,
                          name |-> "ci-bot", owner_user_id |-> req[r].user.id,
                          permissions |-> permsJson, disabled |-> 0]}
                   /\ nextKeyId' = nextKeyId + 1
                   /\ req' = [req EXCEPT ![r] =
                        [req[r] EXCEPT !.pc = "createApiKeys:select",
                                       !.loc.requested = requested,
                                       !.loc.finalRequested = requestedProcessed,
                                       !.loc.raw = raw,
                                       !.loc.keyHash = keyHash]]
    /\ UNCHANGED <<roles, users, tokens, knownRaws, routes, limiter, left>>

\* A mutation of CatchResponse: the entries pushed so far go out with the error.
CatchResponseWithCreated(created) ==
    [Response(500, "Failed to create api keys") EXCEPT !.created = created]

\* The catch of createApiKeys: error and details, nothing of created.
CatchResponse(created) == Response(500, "Failed to create api keys")

\* One turn of the for loop whose INSERT the store rejects: the checks of the
\* item pass, turso.execute throws, the catch answers.  No transaction spans
\* the loop, so the rows of earlier turns stay.
createApiKeysInsertFault(r) ==
    /\ At(r, "POST /api-keys", "createApiKeys:item")
    /\ \E item \in ItemInputs :
          LET loc == req[r].loc
              requested == IF item.present THEN item.list ELSE <<>>
              requestedProcessed ==
                  RequestedProcessed(requested, req[r].user.is_api_key,
                                     loc.creatorIsAdmin, loc.creatorPerms, loc.roleRow)
              invalid == Invalid(requestedProcessed, loc.creatorIsAdmin, loc.creatorPerms)
          IN  /\ Len(invalid) = 0
              /\ req' = [req EXCEPT ![r] =
                           [Done(r, CatchResponse(loc.created))
                            EXCEPT !.loc.requested = requested,
                                   !.loc.finalRequested = requestedProcessed]]
    /\ UNCHANGED <<store, tokens, knownRaws, routes, limiter, left>>

\* The rest of the turn: the SELECT of the new row and created.push; after the
\* last item the 201 answer.  A row that is gone makes sel.rows[0] undefined,
\* and the TypeError ends in the catch.
createApiKeysSelect(r) ==
    /\ At(r, "POST /api-keys", "createApiKeys:select")
    /\ LET loc == req[r].loc
           rows == KeysByHash(loc.keyHash)
           row == CHOOSE k \in rows : TRUE
           parsed == JsonParse(row.permissions)
           entry == [public_id |-> row.public_id, name |-> row.name,
                     permissions |-> parsed.val, raw_key |-> loc.raw]
           created == Append(loc.created, entry)
       IN  IF rows = {}
           THEN /\ req' = [req EXCEPT ![r] = Done(r, CatchResponse(loc.created))]
                /\ UNCHANGED knownRaws
           ELSE IF loc.index + 1 < loc.batch
           THEN /\ req' = [req EXCEPT ![r] =
                             [req[r] EXCEPT !.pc = "createApiKeys:item",
                                            !.loc.index = @ + 1,
                                            !.loc.created = created]]
                /\ UNCHANGED knownRaws
           ELSE /\ req' = [req EXCEPT ![r] =
                             [Done(r, [Response(201, "") EXCEPT !.created = created])
                              EXCEPT !.loc.index = @ + 1, !.loc.created = created]]
                /\ knownRaws' = knownRaws \cup {created[i].raw_key : i \in 1..Len(created)}
    /\ UNCHANGED <<store, tokens, routes, limiter, left>>

\* SELECT ... FROM api_keys WHERE owner_user_id = ?, in rowid order
RECURSIVE RowsInOrder(_)
RowsInOrder(S) ==
    IF S = {} THEN <<>>
    ELSE LET k == CHOOSE x \in S : \A y \in S : x.id <= y.id
         IN  <<k>> \o RowsInOrder(S \ {k})

KeysOfOwner(uid) == RowsInOrder({k \in api_keys : k.owner_user_id = uid})

\* A mutation of ListRow: the digest column is selected and returned too.
ListRowWithHash(k) ==
    [public_id |-> k.public_id, name |-> k.name,
     permissions |-> IF k.permissions.sql = "text"
                     THEN JsonParse(k.permissions).val ELSE JsArray(<<>>),
     disabled |-> k.disabled # 0, key_hash |-> k.key_hash]

\* result.rows.map(...): what listApiKeys returns of one row.
ListRow(k) ==
    [public_id |-> k.public_id, name |-> k.name,
     permissions |-> IF k.permissions.sql = "text"
                     THEN JsonParse(k.permissions).val ELSE JsArray(<<>>),
     disabled |-> k.disabled # 0]

\* listApiKeys: a permissions text that is not JSON throws in the map and the
\* catch answers 500.
listApiKeys(r) ==
    /\ At(r, "GET /api-keys", "handler")
    /\ LET rows == KeysOfOwner(req[r].user.id)
           throws == \E i \in 1..Len(rows) :
                        rows[i].permissions.sql = "text" /\ JsonParse(rows[i].permissions).threw
       IN  req' = [req EXCEPT ![r] =
                     IF throws THEN Done(r, Response(500, "Failed to fetch api keys"))
                     ELSE Done(r, [Response(200, "") EXCEPT
                                     !.rows = [i \in 1..Len(rows) |-> ListRow(rows[i])]])]
    /\ UNCHANGED <<store, tokens, knownRaws, routes, limiter, left>>

UnknownKeyPublicId == 299

\* A mutation of DeleteWhere: the owner is not part of the WHERE clause.
DeleteWhereAnyOwner(publicIds, uid) ==
    {k \in api_keys : k.public_id \notin publicIds}

\* DELETE FROM api_keys WHERE public_id IN (...) AND owner_user_id = ?: the
\* rows that stay.
DeleteWhere(publicIds, uid) ==
    {k \in api_keys : ~(k.public_id \in publicIds /\ k.owner_user_id = uid)}

\* deleteApiKeys
deleteApiKeys(r) ==
    /\ At(r, "DELETE /api-keys", "handler")
    /\ \E publicIds \in SUBSET ({k.public_id : k \in api_keys} \cup {UnknownKeyPublicId}) :
          IF publicIds = {}
          THEN /\ req' = [req EXCEPT ![r] =
                            Done(r, Response(400, "public_ids must be a non-empty array"))]
               /\ UNCHANGED api_keys
          ELSE /\ api_keys' = DeleteWhere(publicIds, req[r].user.id)
               /\ req' = [req EXCEPT ![r] =
                            [Done(r, Response(200, "")) EXCEPT !.loc.publicIds = publicIds]]
    /\ UNCHANGED <<roles, users, nextKeyId, tokens, knownRaws, routes, limiter, left>>

\* getUsers and createProduct read and write nothing of the authorization
\* store; only their being reached matters here.
protectedOperation(r) ==
    /\ \E route \in {"GET /users", "POST /products"} : At(r, route, "handler")
    /\ req' = [req EXCEPT ![r] = Done(r, Response(200, ""))]
    /\ UNCHANGED <<store, tokens, knownRaws, routes, limiter, left>>

\* ------------------------------------------------------------ the system
InitialUsers ==
    <<[public_id |-> generatePublicIds("user", 1), username |-> "admin",
       password |-> BcryptHash("pw1"), role_id |-> 1, token_version |-> 0],
      [public_id |-> generatePublicIds("user", 2), username |-> "alice",
       password |-> BcryptHash("pw1"), role_id |-> 2, token_version |-> 0]>>

\* The row of an initial user as login reads it.
InitialRow(i) ==
    [id |-> i, public_id |-> InitialUsers[i].public_id,
     username |-> InitialUsers[i].username, password |-> InitialUsers[i].password,
     role_id |-> InitialUsers[i].role_id,
     token_version |-> InitialUsers[i].token_version]

\* Both initial users have logged in, so each holds a token of version 0.
Init ==
    /\ roles \in RoleTables
    /\ users = InitialUsers
    /\ api_keys = InitialKeys
    /\ nextKeyId = FirstKeyId
    /\ tokens = {SignToken(InitialRow(i)) : i \in 1..Len(InitialUsers)}
    /\ knownRaws = {RawSecret(k.id) : k \in InitialKeys}
    /\ req = [r \in Slots |-> IdleRequest]
    /\ routes = Routes
    /\ left = MaxRequests
    /\ LimiterAtStart

Next ==
    \E r \in Slots :
        \/ Arrive(r)
        \/ Auth(r)
        \/ Gate(r)
        \/ requireUploadIfImages(r)
        \/ register(r)
        \/ loginSelect(r)
        \/ loginSign(r)
        \/ changePassword(r)
        \/ changeRoleLookup(r)
        \/ changeRoleUpdate(r)
        \/ createApiKeysReadRole(r)
        \/ createApiKeysItem(r)
        \/ createApiKeysSelect(r)
        \/ listApiKeys(r)
        \/ deleteApiKeys(r)
        \/ protectedOperation(r)
        \/ Finish(r)

Spec == Init /\ [][Next]_vars

\* ------------------------------------------------ requireRole on its own
\* The entries that gate lists are made of: plain permission names and role
\* entries, one of them in capitals.
GateEntries == {"post_products", "get_users", "role:admin", "role:ADMIN", "role:ban"}

GateLists == UNION {[1..n -> GateEntries] : n \in 0..MaxGate}

\* The seed after another edit: flags in the remaining encodings.
OddRoles ==
    [i \in RoleIds |->
        CASE i = 2 -> [SeedRoles[2] EXCEPT
                         !.flags = SetFlags(SetFlags(@, {"can_get_users"}, "i:2"),
                                            {"can_post_products"}, "s:0")]
          [] i = 3 -> [SeedRoles[3] EXCEPT
                         !.flags = SetFlags(@, {"can_get_users"}, "s:TRUE")]
          [] OTHER -> SeedRoles[i]]

GateRoleTables == RoleTables \cup {OddRoles}

\* One user of every role.
GateUsers ==
    InitialUsers \o
    <<[public_id |-> generatePublicIds("user", 3), username |-> "carol",
       password |-> BcryptHash("pw1"), role_id |-> 3, token_version |-> 0],
      [public_id |-> generatePublicIds("user", 4), username |-> "dave",
       password |-> BcryptHash("pw1"), role_id |-> 4, token_version |-> 0]>>

\* req.user as the bearer path of auth leaves it for user i.
GateUserPrincipal(i) ==
    [id |-> i, is_api_key |-> FALSE, public_id |-> GateUsers[i].public_id,
     username |-> GateUsers[i].username, role_id |-> GateUsers[i].role_id,
     token_version |-> GateUsers[i].token_version, api_key_id |-> 0,
     permissions |-> JsArray(<<>>)]

\* What JSON.parse can return for the permissions of a key.
KeyPermissionValues ==
    {JsArray(l) : l \in {<<>>, <<"all">>, <<"get_users">>, <<"post_products", "all">>,
                         <<"role:admin">>}}
        \cup {JsObject}

\* req.user as the API-key path of auth leaves it for a key of that owner.
GateKeyPrincipal(owner, val) ==
    [id |-> owner, is_api_key |-> TRUE, public_id |-> ActiveKey.public_id,
     username |-> "api_key:", role_id |-> 0, token_version |-> 0,
     api_key_id |-> ActiveKey.id, permissions |-> val]

GatePrincipals ==
    {GateUserPrincipal(i) : i \in 1..Len(GateUsers)}
        \cup {GateKeyPrincipal(o, v) : o \in {1, 2, 4}, v \in KeyPermissionValues}

\* A request stands before requireRole(L) with principal p.
InitGate ==
    /\ roles \in GateRoleTables
    /\ users = GateUsers
    /\ api_keys = InitialKeys
    /\ nextKeyId = FirstKeyId
    /\ tokens = {}
    /\ knownRaws = {}
    /\ \E p \in GatePrincipals, L \in GateLists :
          req = [r \in Slots |->
                    IF r = 1
                    THEN [IdleRequest EXCEPT !.allowedRoles = L, !.pc = "gate", !.user = p]
                    ELSE IdleRequest]
    /\ routes = {}
    /\ left = 0
    /\ LimiterAtStart

NextGate == Gate(1) \/ Finish(1)

SpecGate == InitGate /\ [][NextGate]_vars

\* ------------------------------------------------------- auth on its own
\* Key rows whose permissions column holds no JSON list: NULL and a text that
\* is not JSON (the column is plain TEXT).
NullKey ==
    [id |-> 3, public_id |-> generatePublicIds("api_key", 3),
     key_hash |-> Sha256(RawSecret(3)), name |-> "null", owner_user_id |-> 1,
     permissions |-> SqlNull, disabled |-> 0]

GarbageKey ==
    [id |-> 4, public_id |-> generatePublicIds("api_key", 4),
     key_hash |-> Sha256(RawSecret(4)), name |-> "text", owner_user_id |-> 2,
     permissions |-> GarbageText, disabled |-> 0]

AuthKeys == InitialKeys \cup {NullKey, GarbageKey}

AuthRoutes == {"POST /change-password", "POST /change-role", "GET /users"}

InitAuth ==
    /\ roles \in RoleTables
    /\ users = InitialUsers
    /\ api_keys = AuthKeys
    /\ nextKeyId = Cardinality(AuthKeys) + 1
    /\ tokens = {SignToken(InitialRow(i)) : i \in 1..Len(InitialUsers)}
    /\ knownRaws = {RawSecret(k.id) : k \in AuthKeys}
    /\ req = [r \in Slots |-> IdleRequest]
    /\ routes = AuthRoutes
    /\ left = AuthRequests
    /\ LimiterAtStart

NextAuth == Auth(1) \/ Finish(1)

SpecAuth == InitAuth /\ [][NextAuth]_vars

\* ------------------------------------------- auth and requireRole in a row
\* A key row whose permissions text is JSON but no array.
ObjectKey ==
    [id |-> 1, public_id |-> generatePublicIds("api_key", 1),
     key_hash |-> Sha256(RawSecret(1)), name |-> "object", owner_user_id |-> 1,
     permissions |-> JsonStringify(JsObject), disabled |-> 0]

KeyGateKeys == {ObjectKey, ActiveKey, NullKey, GarbageKey}

KeyGateRoutes ==
    {"POST /change-role", "GET /api-keys", "DELETE /api-keys", "GET /users",
     "POST /products"}

InitKeyGate ==
    /\ roles \in RoleTables
    /\ users = InitialUsers
    /\ api_keys = KeyGateKeys
    /\ nextKeyId = Cardinality(KeyGateKeys) + 1
    /\ tokens = {SignToken(InitialRow(i)) : i \in 1..Len(InitialUsers)}
    /\ knownRaws = {RawSecret(k.id) : k \in KeyGateKeys}
    /\ req = [r \in Slots |-> IdleRequest]
    /\ routes = KeyGateRoutes
    /\ left = AuthRequests
    /\ LimiterAtStart

NextKeyGate == Auth(1) \/ Gate(1) \/ requireUploadIfImages(1) \/ Finish(1)

SpecKeyGate == InitKeyGate /\ [][NextKeyGate]_vars

\* ------------------------------------------- the bearer path on its own
\* alice has changed her password once since her first login.
BearerUsers == [InitialUsers EXCEPT ![2].token_version = 1]

\* The tokens that clients present: signed by this server, by somebody else or
\* expired; with a payload of the right shape or not; for alice or for a user
\* that is not in the store; with the version before or after the change.
BearerTokens ==
    {[sig |-> g, shape |-> sh, public_id |-> pid, username |-> "alice", role_id |-> 2,
      token_version |-> v] :
        g \in {"valid", "bad", "expired"}, sh \in BOOLEAN,
        pid \in {InitialUsers[2].public_id, UnknownPublicId}, v \in {0, 1}}

InitBearer ==
    /\ roles \in RoleTables
    /\ users = BearerUsers
    /\ api_keys = InitialKeys
    /\ nextKeyId = FirstKeyId
    /\ tokens = BearerTokens
    /\ knownRaws = {RawSecret(k.id) : k \in InitialKeys}
    /\ req = [r \in Slots |-> IdleRequest]
    /\ routes = AuthRoutes
    /\ left = AuthRequests
    /\ LimiterAtStart

SpecBearer == InitBearer /\ [][NextAuth]_vars

\* --------------------------------------- the version comparison of auth
\* A users table from before token versions: the row of admin holds no
\* token_version, the row of alice holds 0.
VersionUsers == [InitialUsers EXCEPT ![1].token_version = Null]

\* Tokens of both users: without token_version, or with 0 or 1.
VersionTokens ==
    {[sig |-> "valid", shape |-> TRUE, public_id |-> InitialUsers[i].public_id,
      username |-> InitialUsers[i].username, role_id |-> InitialUsers[i].role_id,
      token_version |-> v] :
        i \in 1..Len(InitialUsers), v \in {Undefined, 0, 1}}

InitVersion ==
    /\ roles \in RoleTables
    /\ users = VersionUsers
    /\ api_keys = InitialKeys
    /\ nextKeyId = FirstKeyId
    /\ tokens = VersionTokens
    /\ knownRaws = {RawSecret(k.id) : k \in InitialKeys}
    /\ req = [r \in Slots |-> IdleRequest]
    /\ routes = AuthRoutes
    /\ left = AuthRequests
    /\ LimiterAtStart

SpecVersion == InitVersion /\ [][NextAuth]_vars

\* ------------------------------------- requests around a run of dbinit.sql
\* The UPDATE statements at the end of migrations/dbinit.sql on one row (the
\* INSERT OR IGNORE before them finds the four roles in place).
dbinitRow(row) ==
    CASE row.name = "admin" ->
           [row EXCEPT !.flags = SetFlags(@, {"can_get_users", "can_get_products",
                                              "can_get_bestsellers", "can_upload_media"},
                                          "i:1")]
      [] row.name = "premium" ->
           [row EXCEPT !.flags = SetFlags(@, {"can_get_bestsellers", "can_upload_media"},
                                          "i:1")]
      [] row.name = "ban" ->
           [row EXCEPT !.flags = SetFlags(@, {"can_get_my_user", "can_post_login",
                                              "can_post_products", "can_get_my_products",
                                              "can_create_api_keys", "can_read_api_keys",
                                              "can_delete_api_keys"}, "i:0")]
      [] OTHER -> row

\* An operator runs the migration again while the server is up.
dbinit ==
    /\ roles' = [i \in RoleIds |-> dbinitRow(roles[i])]
    /\ UNCHANGED <<users, api_keys, nextKeyId, tokens, knownRaws, req, routes, limiter, left>>

MigrateRoutes == {"POST /change-role", "GET /users", "POST /products"}

\* The flags have been edited since the last run of the migration.
InitMigrate ==
    /\ roles = EditedRoles
    /\ users = InitialUsers
    /\ api_keys = InitialKeys
    /\ nextKeyId = FirstKeyId
    /\ tokens = {SignToken(InitialRow(i)) : i \in 1..Len(InitialUsers)}
    /\ knownRaws = {RawSecret(k.id) : k \in InitialKeys}
    /\ req = [r \in Slots |-> IdleRequest]
    /\ routes = MigrateRoutes
    /\ left = MigrateRequests
    /\ LimiterAtStart

NextMigrate ==
    \/ dbinit
    \/ \E r \in Slots :
          \/ Auth(r)
          \/ Gate(r)
          \/ requireUploadIfImages(r)
          \/ changeRoleLookup(r)
          \/ changeRoleUpdate(r)
          \/ protectedOperation(r)
          \/ Finish(r)

SpecMigrate == InitMigrate /\ [][NextMigrate]_vars

\* ------------------------------------- issuance on a store that can fail
FaultRoutes == {"POST /api-keys"}

InitFault ==
    /\ roles \in RoleTables
    /\ users = InitialUsers
    /\ api_keys = InitialKeys
    /\ nextKeyId = FirstKeyId
    /\ tokens = {SignToken(InitialRow(i)) : i \in 1..Len(InitialUsers)}
    /\ knownRaws = {RawSecret(k.id) : k \in InitialKeys}
    /\ req = [r \in Slots |-> IdleRequest]
    /\ routes = FaultRoutes
    /\ left = AuthRequests
    /\ LimiterAtStart

NextFault ==
    \/ Auth(1)
    \/ Gate(1)
    \/ createApiKeysReadRole(1)
    \/ createApiKeysItem(1)
    \/ createApiKeysInsertFault(1)
    \/ createApiKeysSelect(1)
    \/ Finish(1)

SpecFault == InitFault /\ [][NextFault]_vars

\* ----------------------------------------------- logins while time passes
LimiterRoutes == {"POST /login"}

InitLimiter ==
    /\ roles = SeedRoles
    /\ users = InitialUsers
    /\ api_keys = InitialKeys
    /\ nextKeyId = FirstKeyId
    /\ tokens = {}
    /\ knownRaws = {}
    /\ req = [r \in Slots |-> IdleRequest]
    /\ routes = LimiterRoutes
    /\ left = LimiterRequests
    /\ LimiterAtStart

NextLimiter == Arrive(1) \/ Tick \/ loginSelect(1) \/ loginSign(1) \/ Finish(1)

SpecLimiter == InitLimiter /\ [][NextLimiter]_vars

\* ------------------------------- keys while their owners are being changed
\* One request after the other: passwords and roles change, keys are used.
OwnerRoutes == {"POST /change-password", "POST /change-role", "POST /products"}

InitOwner ==
    /\ roles = SeedRoles
    /\ users = InitialUsers
    /\ api_keys = AuthKeys
    /\ nextKeyId = Cardinality(AuthKeys) + 1
    /\ tokens = {SignToken(InitialRow(i)) : i \in 1..Len(InitialUsers)}
    /\ knownRaws = {RawSecret(k.id) : k \in AuthKeys}
    /\ req = [r \in Slots |-> IdleRequest]
    /\ routes = OwnerRoutes
    /\ left = OwnerRequests
    /\ LimiterAtStart

NextOwner ==
    \/ Auth(1)
    \/ Gate(1)
    \/ requireUploadIfImages(1)
    \/ changePassword(1)
    \/ changeRoleLookup(1)
    \/ changeRoleUpdate(1)
    \/ protectedOperation(1)
    \/ Finish(1)

SpecOwner == InitOwner /\ [][NextOwner]_vars

\* ------------------------------------------- issuance and use of a key
\* Three requests on the routes that issue a key, change a role and use a key.
RoundTripRoutes == {"POST /api-keys", "POST /change-role", "GET /users"}

InitRoundTrip ==
    /\ roles = SeedRoles
    /\ users = InitialUsers
    /\ api_keys = InitialKeys
    /\ nextKeyId = FirstKeyId
    /\ tokens = {SignToken(InitialRow(i)) : i \in 1..Len(InitialUsers)}
    /\ knownRaws = {RawSecret(k.id) : k \in InitialKeys}
    /\ req = [r \in Slots |-> IdleRequest]
    /\ routes = RoundTripRoutes
    /\ left = MaxRoundTrip
    /\ LimiterAtStart

NextRoundTrip ==
    \E r \in Slots :
        \/ Auth(r)
        \/ Gate(r)
        \/ changeRoleLookup(r)
        \/ changeRoleUpdate(r)
        \/ createApiKeysReadRole(r)
        \/ createApiKeysItem(r)
        \/ createApiKeysSelect(r)
        \/ protectedOperation(r)
        \/ Finish(r)

SpecRoundTrip == InitRoundTrip /\ [][NextRoundTrip]_vars

\* =================================================================== claims
\* The token_version snapshots that exist: the tokens signed so far and the
\* rows that a login in flight has read and is about to sign.
Snapshots ==
    tokens \cup {SignToken(req[r].loc.user) : r \in {q \in Slots : req[q].pc = "login:compare"}}

\* auth answers 403 "Token invalidated" to a request that carries only token t.
Revoked(t) == auth(NoHeader, t).res = Response(403, "Token invalidated")

\* Slot r answers 200 in this step.
Succeeds(r) == req[r].pc # "done" /\ req'[r].pc = "done" /\ req'[r].res.status = 200

\* The user whose row a change-password or change-role request of slot r updates.
ChangedUser(r) ==
    IF req[r].route = "POST /change-password" THEN req[r].user.id
    ELSE req[r].loc.targetUserId

\* A request arrives in slot r in this step and auth resolves it.
Resolves(r) == Idle(r) /\ ~Idle(r)' /\ req'[r].route \notin OpenRoutes

C1_Step ==
    /\ \A r \in Slots :
          (Succeeds(r) /\ req[r].route \in {"POST /change-password", "POST /change-role"})
          => LET u == ChangedUser(r)
             IN  /\ users'[u].token_version = users[u].token_version + 1
                 /\ \A t \in Snapshots :
                        t.public_id = users[u].public_id => Revoked(t)'
    /\ \A t \in Snapshots : Revoked(t) => Revoked(t)'
    /\ \A r \in Slots :
          (Resolves(r) /\ req'[r].apiKeyHeader = NoHeader
             /\ req'[r].token \in tokens /\ Revoked(req'[r].token))
          => req'[r].pc = "done" /\ req'[r].res = Response(403, "Token invalidated")

\* C1: every successful changePassword and changeRole adds exactly 1 to the
\* token_version of the user it changes, and every token whose snapshot was
\* read before (by a finished login or by one still in flight) is answered
\* 403 "Token invalidated" from then on, although its signature verifies.
C1_TokenRevocation == [][C1_Step]_vars

\* A request with a once valid token has just been turned down as invalidated.
C1_Witness ==
    \E r \in Slots :
        /\ req[r].pc = "done"
        /\ req[r].token \in tokens
        /\ req[r].apiKeyHeader = NoHeader
        /\ req[r].res = Response(403, "Token invalidated")

\* ------------------------------------------------------------------- C2
\* The creator of the createApiKeys request in slot r is an API key or a user
\* whose role, as the handler read it, is not named admin.
NonAdminCreator(r) ==
    req[r].user.is_api_key \/ ToLower(req[r].loc.roleRow.name) # "admin"

\* The effective permission set of that creator: the list of the key, or the
\* permission names whose flag is truthy on the role row.
EffectiveSet(r) ==
    IF req[r].user.is_api_key THEN Range(ArrayOrEmpty(req[r].user.permissions))
    ELSE {p \in PermNames :
            /\ CanColumn(p) \in DOMAIN req[r].loc.roleRow.flags
            /\ Truthy(req[r].loc.roleRow.flags[CanColumn(p)])}

\* Slot r takes one item of its batch in this step.
TakesItem(r) ==
    req[r].pc = "createApiKeys:item" /\ req'[r].pc # "createApiKeys:item"

Inserted == api_keys' \ api_keys

C2_Step ==
    \A r \in Slots :
        (TakesItem(r) /\ req[r].loc.batch = 1 /\ NonAdminCreator(r))
        => LET R == req'[r].loc.finalRequested
               S == EffectiveSet(r)
               outside == SelectSeq(R, LAMBDA p : p \notin S)
           IN  /\ (outside = <<>>) <=> (Inserted # {})
               /\ outside # <<>> =>
                     /\ api_keys' = api_keys
                     /\ req'[r].pc = "done"
                     /\ req'[r].res.status = 403
                     /\ req'[r].res.invalid_permissions = outside

\* C2: a single-spec createApiKeys request of a non-admin creator with
\* effective set S and expanded request R inserts a key iff every element of
\* R is in S; otherwise it answers 403 with invalid_permissions equal to the
\* elements of R outside S, and inserts nothing.
C2_SubsetOrDenied == [][C2_Step]_vars

\* The scenario of the spec: a user without get_users asks for post_products
\* and get_users and is told that get_users is invalid.
C2_Witness ==
    \E r \in Slots :
        /\ req[r].route = "POST /api-keys" /\ req[r].pc = "done"
        /\ req[r].loc.batch = 1
        /\ ~req[r].user.is_api_key
        /\ ToLower(req[r].loc.roleRow.name) = "user"
        /\ req[r].loc.requested = <<"post_products", "get_users">>
        /\ req[r].res.status = 403
        /\ req[r].res.invalid_permissions = <<"get_users">>
        /\ api_keys = InitialKeys

\* ------------------------------------------------------------------- C3
\* The list that a key row stores.
StoredList(k) ==
    IF k.permissions.sql = "text" /\ k.permissions.wellformed
    THEN ArrayOrEmpty(k.permissions.val) ELSE <<>>

Persisted(publicId) == \E k \in api_keys : k.public_id = publicId

\* C3: when a batch is denied for a permission outside the creator's set, no
\* key of that batch is in the store, the ones of earlier specs included.
C3_BatchAllOrNothing ==
    \A r \in Slots :
        (/\ req[r].route = "POST /api-keys" /\ req[r].pc = "done"
         /\ req[r].res.status = 403 /\ req[r].res.invalid_permissions # <<>>)
        => \A i \in 1..Len(req[r].loc.created) :
               ~Persisted(req[r].loc.created[i].public_id)

\* ------------------------------------------------------------------- C4
\* C4: no api_keys row stores the literal "all".
C4_NoWildcardStored == \A k \in api_keys : ~Includes(StoredList(k), "all")

\* ------------------------------------------------------------------- C5
C5_Step ==
    \A r \in Slots :
        (/\ TakesItem(r)
         /\ ~req[r].user.is_api_key
         /\ req[r].loc.roleRow.name = "admin"
         /\ req'[r].loc.requested = <<"all">>)
        => /\ Inserted # {}
           /\ \A k \in Inserted :
                 /\ Range(StoredList(k)) = PermNames
                 /\ ~Includes(StoredList(k), "all")

\* C5: a user of the admin role who asks for ["all"] gets a key that stores
\* every permission name of the can_* columns, whatever the flags of the admin
\* role, and not "all".
C5_AdminAllIsUniverse == [][C5_Step]_vars

\* ------------------------------------------------------------------- C6
\* Slot r passes through requireRole in this step.
GateStep(r) == req[r].pc = "gate" /\ req'[r].pc # "gate"

Granted(r) == GateStep(r) /\ req'[r].pc # "done"

Denied(r) == GateStep(r) /\ req'[r].pc = "done" /\ req'[r].res.status = 403

\* A gate entry of the form role:<name>.
RoleEntry(e) == e \in {"role:admin", "role:ADMIN", "role:ban", "role:user"}

\* The permission list of an API-Key Principal.
KeyList(p) == IF p.permissions.t = "array" THEN p.permissions.v ELSE <<>>

C6_Step ==
    \A r \in Slots :
        (GateStep(r) /\ req[r].user.is_api_key)
        => LET L == req[r].allowedRoles
               P == Range(KeyList(req[r].user))
           IN  /\ (\A i \in 1..Len(L) : RoleEntry(L[i])) => Denied(r)
               /\ Granted(r) =>
                     \E i \in 1..Len(L) : ~RoleEntry(L[i]) /\ (L[i] \in P \/ "all" \in P)

\* C6: requireRole never lets an API-Key Principal through on a role:<name>
\* entry, whatever the key's list ("all" included) and whoever owns the key
\* (an admin included): a gate list of role entries only denies it, and a grant
\* always rests on an entry that is a plain name.
C6_KeyNeverPassesRoleEntry == [][C6_Step]_vars

\* A key of the admin that holds "all" has been denied at the gate of
\* change-role.
C6_Witness ==
    \E r \in Slots :
        /\ req[r].pc = "done"
        /\ req[r].user.is_api_key
        /\ roles[users[req[r].user.id].role_id].name = "admin"
        /\ Includes(KeyList(req[r].user), "all")
        /\ req[r].allowedRoles = <<"role:admin">>
        /\ req[r].res = Response(403, "Forbidden: insufficient permissions (api key)")

\* ------------------------------------------------------------------- C7
\* The name of the role that user uid has in the store now.
CurrentRoleName(uid) == roles[users[uid].role_id].name

BanUser(p) == ~p.is_api_key /\ CurrentRoleName(p.id) = "ban"

C7_Step ==
    \A r \in Slots :
        (GateStep(r) /\ BanUser(req[r].user))
        => req'[r].pc = "done" /\ req'[r].res = Response(403, "Forbidden")

\* C7: requireRole denies a User Principal whose role is named "ban" for every
\* gate list, whatever the flags of that role, a list with "role:ban" included.
C7_BanAlwaysDenied == [][C7_Step]_vars

\* A ban user whose role holds a truthy can_post_products has been denied by
\* a gate that lists both role:ban and post_products.
C7_Witness ==
    \E r \in Slots :
        /\ req[r].pc = "done"
        /\ ~req[r].user.is_api_key
        /\ CurrentRoleName(req[r].user.id) = "ban"
        /\ roles[users[req[r].user.id].role_id].flags["can_post_products"] = "i:1"
        /\ Includes(req[r].allowedRoles, "role:ban")
        /\ Includes(req[r].allowedRoles, "post_products")
        /\ req[r].res = Response(403, "Forbidden")

\* ------------------------------------------------------------------- C8
\* The encodings of a flag that count as set.
TruthyEncodings == {"i:1", "s:1", "b:true", "s:TRUE", "s:true"}

\* The role that a role entry names, in lower case.
EntryRole(e) ==
    CASE e \in {"role:admin", "role:ADMIN"} -> "admin"
      [] e = "role:ban" -> "ban"
      [] e = "role:user" -> "user"
      [] OTHER -> ""

\* Entry e matches principal p under the per-entry rules.
Matches(p, e) ==
    IF p.is_api_key
    THEN ~RoleEntry(e) /\ (e \in Range(KeyList(p)) \/ "all" \in Range(KeyList(p)))
    ELSE IF RoleEntry(e) THEN EntryRole(e) = CurrentRoleName(p.id)
    ELSE /\ e \in PermNames
         /\ roles[users[p.id].role_id].flags[CanColumn(e)] \in TruthyEncodings

\* The lists with the entries of L in another order.
PermutationsOf(L) ==
    {[i \in 1..Len(L) |-> L[f[i]]] : f \in Permutations(1..Len(L))}

\* requireRole gives the answer of this step for every order of the list.
SameForEveryOrder(r) ==
    \A M \in PermutationsOf(req[r].allowedRoles) :
        (requireRole(M, req[r].user) = Pending) <=> Granted(r)

C8_LiteralStep ==
    \A r \in Slots :
        GateStep(r)
        => LET L == req[r].allowedRoles
           IN  /\ Granted(r) <=> \E i \in 1..Len(L) : Matches(req[r].user, L[i])
               /\ SameForEveryOrder(r)

\* C8 as stated: requireRole allows iff some entry of the list matches the
\* principal under the per-entry rules, and so the outcome is the same for
\* every permutation of the list.
C8_AllowIffSomeEntryMatches == [][C8_LiteralStep]_vars

C8_Step ==
    \A r \in Slots :
        GateStep(r)
        => LET L == req[r].allowedRoles
           IN  /\ Granted(r) <=>
                     /\ ~BanUser(req[r].user)
                     /\ \E i \in 1..Len(L) : Matches(req[r].user, L[i])
               /\ SameForEveryOrder(r)

\* C8 amended: requireRole allows iff the principal is not a user of the ban
\* role and some entry of the list matches it under the per-entry rules; the
\* outcome is the same for every permutation of the list.
C8_AllowIffNotBannedAndSomeEntryMatches == [][C8_Step]_vars

\* A user has passed a gate of three entries of which the first does not match
\* and the last does.
C8_Witness ==
    \E r \in Slots :
        /\ req[r].pc = "handler"
        /\ ~req[r].user.is_api_key
        /\ Len(req[r].allowedRoles) = 3
        /\ ~Matches(req[r].user, req[r].allowedRoles[1])
        /\ ~Matches(req[r].user, req[r].allowedRoles[2])
        /\ Matches(req[r].user, req[r].allowedRoles[3])

\* ------------------------------------------------------------------- C9
\* A header value without its blanks.
Stripped(h) == SelectSeq(h, LAMBDA c : c # 0)

\* The key records with the digest of the trimmed header value.
KeysOfHeader(h) == {k \in api_keys : k.key_hash = Sha256(Stripped(h))}

\* The stored permissions are absent or a JSON text.
Parseable(k) == k.permissions.sql = "null" \/ k.permissions.wellformed

\* auth leaves an API-Key Principal of one of the keys K in slot r.
ResolvedAsKey(r, K) ==
    /\ req'[r].pc # "done"
    /\ req'[r].user.is_api_key
    /\ \E k \in K : req'[r].user.api_key_id = k.id /\ req'[r].user.id = k.owner_user_id

InvalidKey(r) == req'[r].pc = "done" /\ req'[r].res = Response(403, "Invalid API key")

C9_LiteralStep ==
    \A r \in Slots :
        (Resolves(r) /\ req'[r].apiKeyHeader # NoHeader)
        => LET K == {k \in KeysOfHeader(req'[r].apiKeyHeader) : k.disabled = 0}
           IN  IF K # {} THEN ResolvedAsKey(r, K) ELSE InvalidKey(r)

\* C9 as stated: a request with an x-api-key header yields an API-Key
\* Principal iff a key record with the digest of the trimmed header exists and
\* is not disabled, and is otherwise answered as an invalid API key, whatever
\* bearer token it carries.
C9_KeyHeaderDecidesAlone == [][C9_LiteralStep]_vars

C9_Step ==
    \A r \in Slots :
        (Resolves(r) /\ req'[r].apiKeyHeader # NoHeader)
        => LET K == {k \in KeysOfHeader(req'[r].apiKeyHeader) :
                        k.disabled = 0 /\ Parseable(k)}
           IN  IF K # {} THEN ResolvedAsKey(r, K) ELSE InvalidKey(r)

\* C9 amended: a request with a non-empty x-api-key header yields an API-Key
\* Principal iff a key record with the digest of the trimmed header exists, is
\* not disabled and stores permissions that are absent or parse as JSON;
\* otherwise it is answered as an invalid API key.  The bearer token of the
\* request plays no part in either outcome.
C9_UsableKeyHeaderDecidesAlone == [][C9_Step]_vars

\* A request with the secret of the disabled key and a bearer token that auth
\* would accept has been answered as an invalid API key.
C9_Witness ==
    \E r \in Slots :
        /\ req[r].pc = "done"
        /\ Stripped(req[r].apiKeyHeader) = RawSecret(DisabledKey.id)
        /\ req[r].token \in tokens
        /\ AuthBearer(req[r].token).res = Pending
        /\ req[r].res = Response(403, "Invalid API key")

\* ------------------------------------------------------------------ C10
\* The keys that createApiKeys has persisted.
IssuedKeys == {k \in api_keys : k.id >= FirstKeyId}

C10_Step ==
    \A r \in Slots :
        /\ \A k \in IssuedKeys :
              (/\ Resolves(r)
               /\ req'[r].apiKeyHeader # NoHeader
               /\ k.key_hash = Sha256(Stripped(req'[r].apiKeyHeader)))
              => /\ ResolvedAsKey(r, {k})
                 /\ req'[r].user.permissions = JsArray(StoredList(k))
        /\ (/\ GateStep(r)
            /\ req[r].user.is_api_key
            /\ req[r].user.api_key_id >= FirstKeyId
            /\ req[r].allowedRoles # <<>>
            /\ \A i \in 1..Len(req[r].allowedRoles) : ~RoleEntry(req[r].allowedRoles[i]))
           => (Granted(r) <=>
                  \E i \in 1..Len(req[r].allowedRoles) :
                      req[r].allowedRoles[i] \in Range(KeyList(req[r].user)))

\* C10: a key that createApiKeys persisted with list P resolves, when its raw
\* secret is presented in x-api-key, to an API-Key Principal whose list is P,
\* and that principal passes a gate of plain permission names iff one of the
\* names is in P.
C10_IssuedKeyRoundTrip == [][C10_Step]_vars

\* ------------------------------------------------------------------ C11
\* The columns of an api_keys row.
ApiKeyColumns ==
    {"id", "public_id", "key_hash", "name", "owner_user_id", "permissions", "disabled"}

\* The raw secrets that a response shows.
RawsShown(res) == {res.created[i].raw_key : i \in 1..Len(res.created)}

\* Slot r sends its response in this step.
Answers(r) == req[r].pc # "done" /\ req'[r].pc = "done"

C11_Step ==
    /\ \A k \in api_keys' :
          DOMAIN k = ApiKeyColumns /\ k.key_hash = Sha256(RawSecret(k.id))
    /\ \A r \in Slots :
          Answers(r)
          => LET res == req'[r].res
             IN  /\ \A i \in 1..Len(res.rows) :
                       DOMAIN res.rows[i] \cap {"raw_key", "key_hash"} = {}
                 /\ \A i \in 1..Len(res.created) :
                       /\ "key_hash" \notin DOMAIN res.created[i]
                       /\ \E n \in FirstKeyId..(nextKeyId - 1) :
                             /\ res.created[i].raw_key = RawSecret(n)
                             /\ res.created[i].public_id = generatePublicIds("api_key", n)
                 /\ RawsShown(res) # {} =>
                       /\ req[r].route = "POST /api-keys"
                       /\ res.status = 201
                       /\ RawsShown(res) \cap knownRaws = {}

\* C11: a key row holds the digest of the raw secret and no raw secret; a raw
\* secret is shown only by the 201 answer of the createApiKeys call that made
\* the key, and never a second time; no answer of listApiKeys or of any other
\* handler carries a raw secret or a digest.
C11_RawSecretShownOnce == [][C11_Step]_vars

\* listApiKeys has listed a key that createApiKeys made.
C11_Witness ==
    \E r \in Slots :
        /\ req[r].route = "GET /api-keys" /\ req[r].pc = "done"
        /\ \E i \in 1..Len(req[r].res.rows) :
              req[r].res.rows[i].public_id = generatePublicIds("api_key", FirstKeyId)

\* ------------------------------------------------------------------ C12
\* What a request can change besides its own slot.
effects == <<roles, users, api_keys, nextKeyId, tokens, knownRaws>>

C12_Step ==
    \A r \in Slots :
        /\ (Resolves(r) /\ auth(req'[r].apiKeyHeader, req'[r].token).res # Pending)
           => /\ req'[r].pc = "done"
              /\ req'[r].res = auth(req'[r].apiKeyHeader, req'[r].token).res
              /\ UNCHANGED effects
        /\ (GateStep(r) /\ requireRole(req[r].allowedRoles, req[r].user) # Pending)
           => /\ req'[r].pc = "done"
              /\ req'[r].res = requireRole(req[r].allowedRoles, req[r].user)
              /\ UNCHANGED effects
        /\ (req[r].pc = "gate2" /\ req'[r].pc # "gate2")
           => /\ req'[r].pc = "done" => req'[r].res = requireRole(<<"upload_media">>, req[r].user)
              /\ UNCHANGED effects
        /\ (req[r].pc = "done" /\ req'[r] # req[r])
           => req'[r] = IdleRequest /\ UNCHANGED effects

\* C12: on a route guarded by auth and requireRole, a request that auth fails
\* or requireRole denies ends with that answer; from its arrival to its end
\* nothing of the store and nothing else is changed for it, and no handler
\* step follows the answer.
C12_FailureIsTerminal == [][C12_Step]_vars

\* A user without the admin role has been denied at the gate of change-role
\* and no user row has changed.
C12_Witness ==
    \E r \in Slots :
        /\ req[r].route = "POST /change-role" /\ req[r].pc = "done"
        /\ ~req[r].user.is_api_key /\ req[r].user.id = 2
        /\ req[r].res = Response(403, "Forbidden: insufficient permissions")
        /\ users = InitialUsers

\* ------------------------------------------------------------------ C13
C13_Step ==
    \A r \in Slots :
        /\ (Answers(r) /\ req[r].route = "DELETE /api-keys" /\ req'[r].res.status = 200)
           => LET named == req'[r].loc.publicIds
                  uid == req[r].user.id
              IN  /\ api_keys' \subseteq api_keys
                  /\ api_keys \ api_keys' =
                        {k \in api_keys : k.public_id \in named /\ k.owner_user_id = uid}
                  /\ \A k \in api_keys : k.owner_user_id # uid => k \in api_keys'
        /\ (Answers(r) /\ req[r].route = "GET /api-keys" /\ req'[r].res.status = 200)
           => {req'[r].res.rows[i].public_id : i \in 1..Len(req'[r].res.rows)} =
                 {k.public_id : k \in {x \in api_keys : x.owner_user_id = req[r].user.id}}

\* C13: deleteApiKeys removes exactly the key rows whose public id is named in
\* the request and whose owner is the requester's user id; a key of another
\* owner stays as it is even when the request names it; listApiKeys returns
\* the keys of the requester and no others.
C13_OwnKeysOnly == [][C13_Step]_vars

\* A request that named a key of its own and a key of another owner has
\* removed the first and left the second.
C13_Witness ==
    \E r \in Slots :
        /\ req[r].route = "DELETE /api-keys" /\ req[r].pc = "done"
        /\ req[r].res.status = 200
        /\ req[r].user.id = ActiveKey.owner_user_id
        /\ {DisabledKey.public_id, ActiveKey.public_id} \subseteq req[r].loc.publicIds
        /\ DisabledKey \in api_keys
        /\ ActiveKey \notin api_keys

\* ------------------------------------------------------------------ C14
\* The role that a register request asks for.
AskedRole(role) == IF role = "" THEN "user" ELSE role

C14_Step ==
    \A r \in Slots :
        (Answers(r) /\ req[r].route = "POST /register")
        => LET name == AskedRole(req'[r].loc.role)
               named == {i \in RoleIds : roles[i].name = name}
               taken == \E i \in 1..Len(users) : users[i].username = req'[r].loc.username
           IN  /\ req[r].user = NoUser /\ req[r].apiKeyHeader = NoHeader
               /\ req[r].token = NoToken
               /\ named = {} => users' = users /\ req'[r].res.status = 400
               /\ (named # {} /\ ~taken) =>
                     /\ Len(users') = Len(users) + 1
                     /\ SubSeq(users', 1, Len(users)) = users
                     /\ users'[Len(users')].username = req'[r].loc.username
                     /\ users'[Len(users')].role_id \in named
                     /\ users'[Len(users')].token_version = 0
                     /\ req'[r].res.status = 200
               /\ users' # users => named # {} /\ ~taken

\* C14: register creates one user whose role is the role named in the body,
\* or the role "user" when the body names none, with token_version 0; the
\* request carries no credentials and none are asked for, so any caller can
\* name any role that exists, admin included; when no role has that name no
\* user row is created.
C14_RegisterTakesNamedRole == [][C14_Step]_vars

\* A caller without credentials has registered a user of the admin role.
C14_Witness ==
    \E r \in Slots :
        /\ req[r].route = "POST /register" /\ req[r].pc = "done"
        /\ req[r].res.status = 200
        /\ req[r].loc.role = "admin"
        /\ req[r].token = NoToken /\ req[r].apiKeyHeader = NoHeader
        /\ Len(users) = Len(InitialUsers) + 1
        /\ roles[users[Len(users)].role_id].name = "admin"
        /\ users[Len(users)].token_version = 0

\* ------------------------------------------------------------------ C15
\* The effective permission set that user uid has in the store now.
CurrentEffectiveSet(uid) ==
    {p \in PermNames : roles[users[uid].role_id].flags[CanColumn(p)] \in TruthyEncodings}

C15_Step ==
    \A r \in Slots :
        (/\ TakesItem(r)
         /\ ~req[r].user.is_api_key
         /\ req[r].loc.roleRow.name # "admin")
        => \A k \in Inserted :
               Range(StoredList(k)) \subseteq CurrentEffectiveSet(req[r].user.id)

\* C15: whatever changeRole requests on the creator and whatever other
\* createApiKeys requests run alongside, a key that a non-admin user's
\* createApiKeys inserts stores a list within the effective permission set
\* that the creator has in the store when the insert commits.
C15_SubsetWhenInsertCommits == [][C15_Step]_vars

\* ------------------------------------------------------------------ C16
C16_Step ==
    \A r \in Slots :
        (/\ TakesItem(r)
         /\ ~req[r].user.is_api_key
         /\ req[r].loc.roleRow.name = "admin"
         /\ ~Includes(req'[r].loc.requested, "all"))
        => /\ req'[r].res.status # 403
           /\ Inserted # {}
           /\ \A k \in Inserted : StoredList(k) = req'[r].loc.requested

\* C16: a user of the admin role is exempt from the subset check of
\* createApiKeys: whatever list of permission names a spec asks for, names
\* whose flag is falsy on the admin role included, the key is inserted with
\* that list and no 403 is answered.
C16_AdminExemptFromSubsetCheck == [][C16_Step]_vars

\* ------------------------------------------------------------------ C17
C17_Step ==
    \A r \in Slots :
        (TakesItem(r) /\ req[r].user.is_api_key)
        => LET K == KeyList(req[r].user)
               R == req'[r].loc.requested
           IN  /\ ~req[r].loc.creatorIsAdmin
               /\ ~Includes(R, "all") =>
                     /\ (Inserted # {}) <=> (Range(R) \subseteq Range(K))
                     /\ \A k \in Inserted : StoredList(k) = R
                     /\ Inserted = {} =>
                           req'[r].pc = "done" /\ req'[r].res.status = 403
               /\ Includes(R, "all") =>
                     /\ Inserted # {}
                     /\ \A k \in Inserted : StoredList(k) = K
               /\ Cardinality(Inserted) <= 1
               /\ \A k \in Inserted : Range(StoredList(k)) \subseteq Range(K)

\* C17: createApiKeys treats an API-Key Principal with list K as a non-admin
\* creator whose effective set is K, whatever the role of the key's owner: a
\* spec without "all" is inserted iff every name it asks for is in K, a spec
\* with "all" is stored as K; so the list of a key minted by a key is within
\* the list of the key that minted it.
C17_KeyMintsWithinItsList == [][C17_Step]_vars

\* A key that was itself minted by createApiKeys has minted a key with "all".
C17_Witness ==
    \E r \in Slots :
        /\ req[r].route = "POST /api-keys" /\ req[r].pc = "done"
        /\ req[r].res.status = 201
        /\ req[r].user.is_api_key
        /\ req[r].user.api_key_id >= FirstKeyId
        /\ req[r].loc.requested = <<"all">>
        /\ \E k \in api_keys :
              /\ k.key_hash = req[r].loc.keyHash
              /\ StoredList(k) = KeyList(req[r].user)

\* ------------------------------------------------------------------ C18
C18_Step ==
    \A r \in Slots :
        (/\ TakesItem(r)
         /\ Includes(req'[r].loc.requested, "all")
         /\ EffectiveSet(r) = {})
        => /\ Inserted # {}
           /\ \A k \in Inserted : StoredList(k) = <<>>

\* C18: when a spec asks for "all" and the effective set that createApiKeys
\* read for the creator is empty, the key is stored with the empty list and
\* not with the list that was asked for.
C18_EmptyExpansionStoresEmpty == [][C18_Step]_vars

\* ------------------------------------------------------------------ C19
\* The checks of the bearer path in their order, and the answer of each.
BearerChecks(t) ==
    <<t # NoToken,
      t.sig = "valid",
      t.shape,
      \E i \in 1..Len(users) : users[i].public_id = t.public_id,
      \E i \in 1..Len(users) :
          users[i].public_id = t.public_id /\ users[i].token_version = t.token_version>>

BearerFailures ==
    <<Response(401, "Missing token"),
      Response(403, "Invalid or expired token"),
      Response(403, "Invalid token payload"),
      Response(404, "User not found"),
      Response(403, "Token invalidated")>>

FailingChecks(t) == {i \in 1..Len(BearerChecks(t)) : ~BearerChecks(t)[i]}

C19_Step ==
    \A r \in Slots :
        (Resolves(r) /\ req'[r].apiKeyHeader = NoHeader)
        => LET t == req'[r].token
               failing == FailingChecks(t)
               first == CHOOSE i \in failing : \A j \in failing : i <= j
           IN  IF failing = {}
               THEN /\ req'[r].pc # "done"
                    /\ ~req'[r].user.is_api_key
                    /\ req'[r].user.id \in 1..Len(users)
                    /\ users[req'[r].user.id].public_id = t.public_id
               ELSE /\ req'[r].pc = "done"
                    /\ req'[r].res = BearerFailures[first]
                    /\ req'[r].user = NoUser

\* C19: on the bearer path auth yields a User Principal iff a token is
\* present, verifies, has a payload of the required shape, names a user that
\* exists and carries the stored token_version; otherwise the answer is that
\* of the first of these checks that fails, in this order, and no principal is
\* attached to the request.
C19_BearerChecksInOrder == [][C19_Step]_vars

\* A token that fails three checks at once (it has expired, its payload has
\* the wrong shape and its user is unknown) got the answer of the first.
C19_Witness ==
    \E r \in Slots :
        /\ req[r].pc = "done"
        /\ req[r].apiKeyHeader = NoHeader
        /\ req[r].token.sig = "expired"
        /\ ~req[r].token.shape
        /\ req[r].token.public_id = UnknownPublicId
        /\ req[r].res = Response(403, "Invalid or expired token")
        /\ req[r].user = NoUser

\* ------------------------------------------------------------------ C20
\* The permissions column of key row k holds a JSON text.
JsonStored(k) == k.permissions.sql = "text" /\ k.permissions.wellformed

\* The permissions column of key row k holds a list.
ListStored(k) == JsonStored(k) /\ k.permissions.val.t = "array"

C20_LiteralStep ==
    \A r \in Slots :
        /\ \A k \in api_keys :
              (/\ Resolves(r)
               /\ req'[r].apiKeyHeader # NoHeader
               /\ k \in KeysOfHeader(req'[r].apiKeyHeader)
               /\ k.disabled = 0
               /\ ~ListStored(k))
              => ResolvedAsKey(r, {k}) /\ KeyList(req'[r].user) = <<>>
        /\ (/\ (GateStep(r) \/ (req[r].pc = "gate2" /\ req'[r].pc # "gate2"))
            /\ req[r].user.is_api_key
            /\ \E k \in api_keys : k.id = req[r].user.api_key_id /\ ~ListStored(k))
           => req'[r].pc = "done" /\ req'[r].res.status = 403

\* C20 as stated: a key row that is not disabled and whose stored permissions
\* are absent or are no parseable list resolves to an API-Key Principal with
\* the empty permission set, which every gate denies.
C20_NoListResolvesEmpty == [][C20_LiteralStep]_vars

C20_Step ==
    \A r \in Slots :
        /\ \A k \in api_keys :
              (/\ Resolves(r)
               /\ req'[r].apiKeyHeader # NoHeader
               /\ k \in KeysOfHeader(req'[r].apiKeyHeader)
               /\ k.disabled = 0
               /\ ~ListStored(k))
              => IF k.permissions.sql = "null" \/ JsonStored(k)
                 THEN ResolvedAsKey(r, {k}) /\ KeyList(req'[r].user) = <<>>
                 ELSE InvalidKey(r) /\ req'[r].user = NoUser
        /\ (/\ (GateStep(r) \/ (req[r].pc = "gate2" /\ req'[r].pc # "gate2"))
            /\ req[r].user.is_api_key
            /\ \E k \in api_keys : k.id = req[r].user.api_key_id /\ ~ListStored(k))
           => req'[r].pc = "done" /\ req'[r].res.status = 403

\* C20 amended: a key row that is not disabled resolves to an API-Key
\* Principal with the empty permission set when its stored permissions are
\* absent or are JSON but no list, and every gate denies that principal; when
\* they are a text that is not JSON, resolution fails with 403 "Invalid API
\* key" and no principal is attached.
C20_AbsentResolvesEmptyMalformedFails == [][C20_Step]_vars

\* The key without permissions has been resolved and then denied at a gate.
C20_Witness ==
    \E r \in Slots :
        /\ req[r].pc = "done"
        /\ req[r].user.is_api_key
        /\ req[r].user.api_key_id = NullKey.id
        /\ req[r].user.permissions = JsArray(<<>>)
        /\ req[r].res = Response(403, "Forbidden: insufficient permissions (api key)")

\* ------------------------------------------------------------------ C21
\* A version that is missing: no field in the payload, no value in the row.
Missing(v) == v \in {Undefined, Null}

\* Slot r arrives with a bearer token only, the token verifies, has the shape
\* of a payload and names a user of the store: auth comes to the comparison.
Compared(r) ==
    /\ Resolves(r)
    /\ req'[r].apiKeyHeader = NoHeader
    /\ req'[r].token.sig = "valid" /\ req'[r].token.shape
    /\ UsersByPublicId(req'[r].token.public_id) # {}

C21_Step ==
    \A r \in Slots :
        Compared(r)
        => LET snapshot == req'[r].token.token_version
               id == CHOOSE i \in UsersByPublicId(req'[r].token.public_id) : TRUE
               stored == users[id].token_version
               equal == IF Missing(snapshot) \/ Missing(stored)
                        THEN Missing(snapshot) /\ Missing(stored)
                        ELSE snapshot = stored
           IN  IF equal THEN req'[r].pc # "done" /\ req'[r].user.id = id
               ELSE /\ req'[r].pc = "done"
                    /\ req'[r].res = Response(403, "Token invalidated")
                    /\ req'[r].user = NoUser

\* C21: the version comparison of auth takes a missing snapshot and a missing
\* stored token_version as equal and compares every other pair strictly: a
\* token without token_version is accepted only when the stored value is
\* missing too, and is answered 403 "Token invalidated" against every stored
\* integer, 0 included.
C21_MissingVersionsCompareEqual == [][C21_Step]_vars

\* A token without token_version has been turned down for a user whose stored
\* token_version is 0.
C21_Witness ==
    \E r \in Slots :
        /\ req[r].pc = "done"
        /\ req[r].apiKeyHeader = NoHeader
        /\ req[r].token.sig = "valid" /\ req[r].token.shape
        /\ req[r].token.token_version = Undefined
        /\ \E i \in UsersByPublicId(req[r].token.public_id) : users[i].token_version = 0
        /\ req[r].res = Response(403, "Token invalidated")

\* ------------------------------------------------------------------ C22
\* The role row that the store links to user uid now.
LinkedRow(uid) == roles[users[uid].role_id]

\* What a role row lets through: the role is not ban and some entry of the
\* list names the role or a flag of the row that is set.
RowAllows(row, L) ==
    /\ row.name # "ban"
    /\ \E i \in 1..Len(L) :
          IF RoleEntry(L[i]) THEN EntryRole(L[i]) = row.name
          ELSE L[i] \in PermNames /\ row.flags[CanColumn(L[i])] \in TruthyEncodings

C22_Step ==
    /\ \A r \in Slots :
          (GateStep(r) /\ ~req[r].user.is_api_key)
          => (Granted(r) <=> RowAllows(LinkedRow(req[r].user.id), req[r].allowedRoles))
    /\ \A r \in Slots :
          (/\ req[r].pc = "gate2" /\ req'[r].pc = "done"
           /\ ~req[r].user.is_api_key)
          => ~RowAllows(LinkedRow(req[r].user.id), <<"upload_media">>)
    /\ roles' # roles => users' = users /\ tokens' = tokens

\* C22: for a User Principal requireRole decides by the role row that the
\* store links to the user when the gate runs, not by the role id that the
\* token carries or that auth left on the principal; an edit of the flags of
\* that row leaves token_version alone and decides the next request that
\* comes with the same token.
C22_GateReadsLinkedRoleRow == [][C22_Step]_vars

\* The admin, whose role had lost can_get_users, has passed the gate of
\* GET /users with the token of version 0 after the flag was set again, the
\* stored version still being 0.
C22_Witness ==
    \E r \in Slots :
        /\ req[r].route = "GET /users" /\ req[r].pc = "handler"
        /\ req[r].apiKeyHeader = NoHeader
        /\ req[r].token = SignToken(InitialRow(1))
        /\ users[1].token_version = 0
        /\ EditedRoles[1].flags["can_get_users"] = "i:0"
        /\ LinkedRow(1).flags["can_get_users"] = "i:1"

\* ------------------------------------------------------------------ C23
\* Some product of the body comes with images: the body itself when it is one
\* object, any of its items when it is an array.
WithImages(body) ==
    \E i \in 1..Len(body.items) :
        /\ ~body.items[i].isNull
        /\ body.items[i].images \in {JsArray(<<"a.png">>)}

\* The single permission p lets principal u through a gate now.
Allows(u, p) == ~BanUser(u) /\ Matches(u, p)

C23_Step ==
    \A r \in Slots :
        (req[r].route = "POST /products" /\ req'[r].route = "POST /products")
        => /\ GateStep(r) =>
                 /\ Granted(r) <=> Allows(req[r].user, "post_products")
                 /\ Granted(r) => req'[r].pc = "gate2"
                 /\ ~Granted(r) => req'[r].pc = "done" /\ req'[r].res.status = 403
           /\ (req[r].pc # "gate2" /\ req'[r].pc = "gate2") => GateStep(r)
           /\ (req[r].pc = "gate2" /\ req'[r].pc # "gate2") =>
                 LET images == WithImages(req'[r].loc.body)
                     upload == Allows(req[r].user, "upload_media")
                 IN  /\ req'[r].pc = "handler" <=> (images => upload)
                     /\ req'[r].pc # "handler" =>
                           /\ req'[r].pc = "done" /\ req'[r].res.status = 403
                           /\ images
           /\ (req[r].pc # "handler" /\ req'[r].pc = "handler") => req[r].pc = "gate2"

\* C23: createProduct runs iff the post_products gate allows and, when the
\* body (one object, or some item of an array) has a non-empty images array,
\* the upload_media gate allows too; the upload_media gate is reached only
\* through the post_products gate and denies only a body with images.
C23_UploadGateAfterPostGate == [][C23_Step]_vars

\* A user who holds post_products but not upload_media has been stopped at
\* the second gate for an array body whose last item has images.
C23_Witness ==
    \E r \in Slots :
        /\ req[r].route = "POST /products" /\ req[r].pc = "done"
        /\ ~req[r].user.is_api_key
        /\ req[r].loc.body.isArray /\ Len(req[r].loc.body.items) = 3
        /\ Allows(req[r].user, "post_products")
        /\ ~Allows(req[r].user, "upload_media")
        /\ req[r].res = Response(403, "Forbidden: insufficient permissions")

\* ------------------------------------------------------------------ C24
\* The INSERT of the item at hand fails in this step.
InsertFails(r) ==
    /\ req[r].pc = "createApiKeys:item" /\ req'[r].pc = "done"
    /\ req'[r].res.status = 500

C24_Step ==
    \A r \in Slots :
        InsertFails(r)
        => LET earlier == req[r].loc.created
           IN  /\ Len(earlier) = req[r].loc.index
               /\ \A i \in 1..Len(earlier) :
                     /\ \E k \in api_keys' :
                           /\ k.public_id = earlier[i].public_id
                           /\ k.key_hash = Sha256(earlier[i].raw_key)
                     /\ earlier[i].raw_key \notin knownRaws'
               /\ api_keys' = api_keys
               /\ req'[r].res.error = "Failed to create api keys"
               /\ req'[r].res.created = <<>>

\* C24: when the INSERT for the k-th spec of a batch fails after the first
\* k-1 specs went through, the k-1 keys stay in the store and the answer is
\* the 500 "Failed to create api keys" without any created entry, so that the
\* raw secrets of those keys are shown to nobody.
C24_PartialBatchOnInsertFault == [][C24_Step]_vars

\* The second INSERT of a batch of two has failed: the first key is in the
\* store, its raw secret was never shown.
C24_Witness ==
    \E r \in Slots :
        /\ req[r].route = "POST /api-keys" /\ req[r].pc = "done"
        /\ req[r].res = Response(500, "Failed to create api keys")
        /\ req[r].loc.batch = 2 /\ req[r].loc.index = 1
        /\ Len(req[r].loc.created) = 1
        /\ Persisted(req[r].loc.created[1].public_id)
        /\ req[r].loc.created[1].raw_key \notin knownRaws

\* ------------------------------------------------------------------ C25
\* The user behind the credentials of slot r: the owner of the key that the
\* header names, or the user that the token names.
UnderlyingUsers(r) ==
    IF req[r].apiKeyHeader # NoHeader
    THEN {k.owner_user_id : k \in KeysOfHeader(req[r].apiKeyHeader)}
    ELSE UsersByPublicId(req[r].token.public_id)

C25_Step ==
    \A r \in Slots :
        TakesItem(r)
        => \A k \in Inserted :
              /\ k.disabled = 0
              /\ k.owner_user_id \in UserIds
              /\ UnderlyingUsers(r) # {} => k.owner_user_id \in UnderlyingUsers(r)

\* C25: every row that createApiKeys inserts is owned by the user behind the
\* creator -- for a creator that is an API key, the owner of that key and not
\* the key -- and is not disabled.
C25_OwnerIsUnderlyingUser == [][C25_Step]_vars

\* A key minted earlier (id 3) has minted a key of its own: the new row
\* belongs to the owner of key 3.
C25_Witness ==
    \E r \in Slots :
        /\ req[r].route = "POST /api-keys" /\ req[r].pc = "done"
        /\ req[r].res.status = 201
        /\ req[r].user.is_api_key
        /\ req[r].user.api_key_id = FirstKeyId
        /\ req[r].user.id # req[r].user.api_key_id
        /\ \E k \in api_keys :
              /\ k.id = FirstKeyId + 1
              /\ k.owner_user_id = req[r].user.id
              /\ k.disabled = 0

\* ------------------------------------------------------------------ C26
\* The rows of users that this step leaves with another token_version or role.
ChangedRows ==
    {u \in UserIds : \/ users'[u].token_version # users[u].token_version
                     \/ users'[u].role_id # users[u].role_id}

\* Slot r answers in this step, and not with 200.
Fails(r) == req[r].pc # "done" /\ req'[r].pc = "done" /\ req'[r].res.status # 200

C26_Step ==
    /\ Len(users') >= Len(users)
    /\ \A u \in UserIds : users'[u].token_version >= users[u].token_version
    /\ \A u \in ChangedRows :
          /\ ChangedRows = {u}
          /\ users'[u].token_version = users[u].token_version + 1
          /\ \E r \in Slots :
                /\ Succeeds(r)
                /\ \/ /\ req[r].route = "POST /change-password"
                      /\ u = req[r].user.id
                      /\ users'[u].role_id = users[u].role_id
                   \/ /\ req[r].route = "POST /change-role"
                      /\ u = req[r].loc.targetUserId
                      /\ users'[u].role_id = req[r].loc.roleId
    /\ \A r \in Slots :
          (Succeeds(r) /\ req[r].route \in {"POST /change-password", "POST /change-role"})
          => ChangedRows # {}
    /\ \A r \in Slots :
          (Fails(r) /\ req[r].route \in {"POST /change-password", "POST /change-role"})
          => users' = users

\* C26: no token_version ever goes down; a token_version or a role changes
\* only in a successful changePassword (the row of the requester) or a
\* successful changeRole (the row of the target), by exactly 1 and on exactly
\* one row; every other step, a changeRole refused for its role or its user
\* included, leaves version and role of every user as they were.
C26_VersionMovesByOne == [][C26_Step]_vars

\* alice has changed her password and the admin has then changed her role:
\* her token_version is 2, that of the admin is still 0.
C26_Witness ==
    \E r \in Slots :
        /\ req[r].route = "POST /change-role" /\ req[r].pc = "done"
        /\ req[r].res.status = 200
        /\ req[r].loc.targetUserId = 2
        /\ users[2].token_version = 2
        /\ users[2].role_id = req[r].loc.roleId
        /\ users[1].token_version = 0

\* ------------------------------------------------------------------ C27
\* A login attempt arrives in slot r in this step.
Attempts(r) == Idle(r) /\ req'[r].route = "POST /login"

\* An attempt from address a was let through less than 5000 ms before time t.
AdmittedWithin(a, t) == \E p \in admitted : p[1] = a /\ t - p[2] < 5000

C27_Step ==
    /\ \A r \in Slots :
          Attempts(r)
          => LET a == req'[r].loc.ip
             IN  /\ a \in Addresses
                 /\ IF AdmittedWithin(a, now)
                    THEN /\ req'[r].pc = "done"
                         /\ req'[r].res.status = 429
                         /\ attempts' = attempts
                         /\ admitted' = admitted
                    ELSE /\ req'[r].pc = "handler"
                         /\ attempts'[a] = now
                         /\ admitted' = admitted \cup {<<a, now>>}
                 /\ \A b \in Addresses \ {a} : attempts'[b] = attempts[b]
    /\ (\A r \in Slots : ~Attempts(r)) => attempts' = attempts /\ admitted' = admitted
    /\ \A r \in Slots :
          (req[r].route = "POST /login" /\ req[r].pc = "done" /\ req[r].res.status = 429)
          => req'[r] \in {req[r], IdleRequest}

\* C27: limitLoginAttempts lets a login attempt from address a at time t
\* through iff no attempt from a was let through less than 5000 ms before t;
\* an attempt that it rejects is answered 429, never reaches login and leaves
\* the timestamp of a alone; the timestamp of another address is never read
\* or written for it.
C27_LoginWindowPerAddress == [][C27_Step]_vars

\* One address has been let through at the start and is rejected 4999 ms
\* later, while the other address was let through at that very time.
C27_Witness ==
    \E r \in Slots :
        /\ req[r].route = "POST /login" /\ req[r].pc = "done"
        /\ req[r].res.status = 429
        /\ req[r].loc.ip = "10.0.0.1"
        /\ attempts["10.0.0.1"] = StartTime
        /\ now - attempts["10.0.0.1"] = 4999
        /\ attempts["10.0.0.2"] = now

\* ------------------------------------------------------------------ C28
\* What a request that presents key k gets from auth, and from the gate of
\* each guarded route after it.
KeyOutcome(k) ==
    LET a == auth(k.key_hash.of, NoToken)
    IN  <<a, [route \in GatedRoutes |-> requireRole(GateOf(route), a.user)]>>

\* The owner of key k has another password or another role after this step.
OwnerChanges(k) ==
    /\ k.owner_user_id \in UserIds
    /\ users'[k.owner_user_id] # users[k.owner_user_id]

C28_Step ==
    \A k \in api_keys \cap api_keys' :
        /\ KeyOutcome(k)' = KeyOutcome(k)
        /\ OwnerChanges(k) =>
              /\ (k.disabled = 0 /\ Parseable(k)) => auth(k.key_hash.of, NoToken)'.res = Pending
              /\ auth(k.key_hash.of, NoToken)'.user.permissions
                    = auth(k.key_hash.of, NoToken).user.permissions

\* C28: what auth and requireRole make of an API key is a matter of the key
\* row alone: a change of the owner's password or role, to "ban" included,
\* leaves every key of that owner resolving as before and passing the same
\* gates as before.
C28_KeyIgnoresOwnerState == [][C28_Step]_vars

\* The key of alice has passed the gate of POST /products in the request
\* after the one that moved alice to the ban role.
C28_Witness ==
    \E r \in Slots :
        /\ req[r].route = "POST /products" /\ req[r].pc = "gate2"
        /\ req[r].user.is_api_key
        /\ req[r].user.api_key_id = ActiveKey.id
        /\ CurrentRoleName(ActiveKey.owner_user_id) = "ban"
        /\ users[ActiveKey.owner_user_id].token_version > 0
        /\ left = 0

\* ------------------------------------------------------------------ C29
\* The user row behind principal p.
OwnerOf(p) ==
    IF p.is_api_key
    THEN {k.owner_user_id : k \in {x \in api_keys : x.id = p.api_key_id}}
    ELSE UsersByPublicId(p.public_id)

C29_Step ==
    \A r \in Slots :
        /\ (Resolves(r) /\ req'[r].route = "POST /change-password")
           => IF auth(req'[r].apiKeyHeader, req'[r].token).res = Pending
              THEN req'[r].pc = "handler"
              ELSE req'[r].pc = "done" /\ req'[r].res.status \in {401, 403, 404}
        /\ (req[r].route = "POST /change-password" /\ req[r].pc = "handler")
           => req'[r].pc \in {"handler", "done"}
        /\ (Succeeds(r) /\ req[r].route = "POST /change-password")
           => \A u \in OwnerOf(req[r].user) :
                 /\ users'[u].password = BcryptHash(req'[r].loc.password)
                 /\ users'[u].token_version = users[u].token_version + 1
                 /\ \A v \in UserIds \ {u} : users'[v] = users[v]
                 /\ api_keys' = api_keys
                 /\ req[r].user.is_api_key =>
                       /\ auth(req[r].apiKeyHeader, NoToken)'.res = Pending
                       /\ auth(req[r].apiKeyHeader, NoToken)'.user = req[r].user

\* C29: change-password stands behind auth alone: every principal that auth
\* resolves reaches the handler, whatever its permissions or role; for an
\* API-Key Principal, one with an empty list included, the handler replaces
\* the password of the key's owner and adds 1 to the owner's token_version,
\* and the key resolves afterwards as it did before.
C29_ChangePasswordNeedsAuthOnly == [][C29_Step]_vars

\* The key without permissions, owned by the admin, has changed the admin's
\* password; the admin's token_version is 1 and the key still resolves.
C29_Witness ==
    \E r \in Slots :
        /\ req[r].route = "POST /change-password" /\ req[r].pc = "done"
        /\ req[r].res.status = 200
        /\ req[r].user.is_api_key
        /\ req[r].user.api_key_id = NullKey.id
        /\ req[r].user.permissions = JsArray(<<>>)
        /\ req[r].loc.password = "pw2"
        /\ users[NullKey.owner_user_id].password = BcryptHash("pw2")
        /\ users[NullKey.owner_user_id].token_version = 1
        /\ auth(req[r].apiKeyHeader, NoToken).res = Pending

\* ------------------------------------------------------------------ C30
\* The token of the request in slot r has been revoked since auth let it in.
RevokedInFlight(r) ==
    /\ req[r].pc \notin {"idle", "done"}
    /\ ~req[r].user.is_api_key /\ req[r].user.id # 0
    /\ users[req[r].user.id].token_version # req[r].user.token_version

C30_Step ==
    \A r \in Slots :
        /\ (req'[r].res = Response(403, "Token invalidated") /\ req'[r] # req[r])
           => Resolves(r) \/ req'[r] = IdleRequest
        /\ RevokedInFlight(r) =>
              /\ GateStep(r) =>
                    (Granted(r) <=> RowAllows(LinkedRow(req[r].user.id), req[r].allowedRoles))
              /\ (req[r].pc = "handler" /\ req[r].route \in {"GET /users", "POST /products"}
                    /\ req'[r] # req[r])
                 => req'[r].pc = "done" /\ req'[r].res.status = 200
              /\ req'[r].pc = "done" => req'[r].res.error # "Token invalidated"

\* C30: a request is compared with the stored token_version once, in auth;
\* when a changePassword or changeRole for its user commits after that, the
\* request is not answered "Token invalidated": its gate still decides, by
\* the role linked to the user when the gate reads it, and its protected
\* operation still runs.
C30_NoRevocationInFlight == [][C30_Step]_vars

\* GET /users has been served for the token of the admin although the admin's
\* password was changed, and the token revoked, while the request was under way.
C30_Witness ==
    \E r \in Slots :
        /\ req[r].route = "GET /users" /\ req[r].pc = "done"
        /\ req[r].res.status = 200
        /\ req[r].apiKeyHeader = NoHeader
        /\ req[r].token \in tokens
        /\ Revoked(req[r].token)
        /\ users[req[r].user.id].password = BcryptHash("pw2")

====
